---- MODULE Spec2Model ----
(***************************************************************************)
(* A model of the IPTV channel pipeline: parse.py (manifest parser and     *)
(* entry store merge), check.py (initial probe pass), arrange_channel.py   *)
(* (grouper / prioritizer), re_check.py (repair pipeline) and              *)
(* sync_database.py (database sync).                                       *)
(*                                                                         *)
(* Python strings are sequences of one-character strings, Python dicts are *)
(* sequences of [k, v] pairs in insertion order (what json.load/json.dump  *)
(* and dict iteration preserve), Python lists are sequences.               *)
(***************************************************************************)
EXTENDS Integers, Sequences, FiniteSets, TLC

VARIABLES
    pc,                    \* position of the running function
    \* ---- parse.py: parse_m3u_to_json / main
    channels_json,         \* the file channels.json (the Entry Store)
    m3u_url,               \* argument of the running parse
    lines,                 \* content.split('\n') of the downloaded manifest
    line_idx,              \* position of the for-loop over lines
    channels,              \* local dict of the running parse
    current_channel_info,  \* <<>> is None, <<info>> is a pending entry
    channel_index,         \* local counter of the running parse
    parse_runs,            \* number of parse_m3u_to_json calls made by main
    parse_result,          \* what the last call returned, once it has returned
    metadata_line,         \* argument of extract_channel_name / extract_attributes
    extracted_name,        \* <<>> until extract_channel_name has returned
    extracted_attributes,  \* <<>> until extract_attributes has returned
    \* ---- check.py: check_playable_channels_from_json
    check_channels,        \* json.load of channels.json
    check_idx,             \* position of the loop over the entries
    check_playable,        \* local dict playable_channels
    checked_count,         \* local counter
    playable_json,         \* the file playable_channels.json
    last_outcome,          \* what the latest requests.head did
    probe_raised,          \* some requests.head of the run has raised
    check_result,          \* what the call returned, once it has returned
    \* ---- sync_database.py: batch_insert_channels_from_json
    sync_channels,         \* json.load of channels_final.json
    sync_idx,              \* position of the loop over the groups
    db_channels,           \* rows of the table channels
    db_sources,            \* rows of the table channel_sources
    db_serial,             \* per table: the last id it has given to a row
    success_count,         \* local counter
    error_count,           \* local counter
    sync_errors,           \* local list errors: the keys it names
    insert_log,            \* the insert calls of this run, and what they did
    sync_result,           \* what the call returned, once it has returned
    sync_child,            \* position of the loop over childlist, 0 outside it
    sync_channel_id,       \* local channel_id of the group being handled
    api_calls,             \* calls of the other public methods of ChannelDB
    api_result,            \* what the latest of them returned
    \* ---- arrange_channel.py: arrange_channels
    playable_channels,     \* json.load of playable_channels.json
    entry_idx,             \* position of the grouping loop
    grouped_channels,      \* local dict of arrange_channels
    group_idx,             \* position of the post-processing loop
    channels_arrange_json, \* the file channels_arrange.json
    \* ---- re_check.py: recheck_arranged_channels
    arranged,              \* json.load of channels_arrange.json
    group_pos,             \* position of the loop over channel groups
    final_channels,        \* local dict of recheck_arranged_channels
    checked_groups,        \* local counter of recheck_arranged_channels
    channels_final_json,   \* the file channels_final.json
    probe_log,             \* per group handled: which probes answered 200
    probed,                \* the urls handed to requests.head so far, in order
    recheck_at,            \* where in the iteration the call is
    child_pos,             \* position of the loop over childlist
    main_playable,         \* local main_playable
    playable_childlist,    \* local list playable_childlist
    recheck_raised,        \* some requests.head of the run has raised
    run_no,                \* 1, or 2 for a run on the output of the first
    seen_playable          \* run 2: the endpoints that answered 200 in run 1

parseVars == <<channels_json, m3u_url, lines, line_idx, channels,
               current_channel_info, channel_index, parse_runs, parse_result>>
arrangeVars == <<playable_channels, entry_idx, grouped_channels, group_idx,
                 channels_arrange_json>>
recheckVars == <<arranged, group_pos, final_channels, checked_groups,
                 channels_final_json, probe_log, probed, recheck_at,
                 child_pos, main_playable, playable_childlist,
                 recheck_raised, run_no, seen_playable>>
extractVars == <<metadata_line, extracted_name, extracted_attributes>>
checkVars == <<check_channels, check_idx, check_playable, checked_count,
               playable_json, last_outcome, probe_raised, check_result>>
syncVars == <<sync_channels, sync_idx, db_channels, db_sources, db_serial,
              success_count, error_count, sync_errors, insert_log, sync_result, sync_child,
              sync_channel_id, api_calls, api_result>>
vars == <<pc, parseVars, arrangeVars, recheckVars, extractVars, checkVars,
          syncVars>>

----------------------------------------------------------------------------
\* Bounds of the model

MaxBodyLines == 3
MaxParseRuns == 2
MaxEntries == 3
MaxRecheckEntries == 3
NumLongGroups == 12

----------------------------------------------------------------------------
\* Sequences and strings

Range(s) == {s[i] : i \in 1..Len(s)}

SeqsUpTo(S, n) == UNION {[1..k -> S] : k \in 0..n}

RECURSIVE SelectIdx(_, _, _)
\* the subsequence of s at the indices of set I, in order, scanning from i
SelectIdx(s, I, i) ==
    IF i > Len(s) THEN <<>>
    ELSE (IF i \in I THEN <<s[i]>> ELSE <<>>) \o SelectIdx(s, I, i + 1)

StartsWith(s, p) ==
    /\ Len(s) >= Len(p)
    /\ \A i \in 1..Len(p) : s[i] = p[i]

Contains(s, c) == \E i \in 1..Len(s) : s[i] = c

\* first index at which p occurs in s, 0 when it does not
Find(s, p) ==
    LET hits == {i \in 1..(Len(s) - Len(p) + 1) :
                    \A j \in 1..Len(p) : s[i + j - 1] = p[j]}
    IN  IF hits = {} THEN 0 ELSE CHOOSE i \in hits : \A j \in hits : i <= j

\* the characters str.strip() removes: every character for which
\* str.isspace() holds.  A character that has no escape in a TLA+ string is
\* written as its code point
Whitespace ==
    {" ", "\t", "\n", "\r", "\f", "U+000B",
     "U+001C", "U+001D", "U+001E", "U+001F", "U+0085", "U+00A0", "U+1680",
     "U+2000", "U+2001", "U+2002", "U+2003", "U+2004", "U+2005", "U+2006",
     "U+2007", "U+2008", "U+2009", "U+200A", "U+2028", "U+2029", "U+202F",
     "U+205F", "U+3000"}

Strip(s) ==
    LET keep == {i \in 1..Len(s) : s[i] \notin Whitespace}
    IN  IF keep = {} THEN <<>>
        ELSE LET lo == CHOOSE i \in keep : \A j \in keep : i <= j
                 hi == CHOOSE i \in keep : \A j \in keep : j <= i
             IN  SubSeq(s, lo, hi)

DigitChar(d) ==
    CASE d = 0 -> "0" [] d = 1 -> "1" [] d = 2 -> "2" [] d = 3 -> "3"
      [] d = 4 -> "4" [] d = 5 -> "5" [] d = 6 -> "6" [] d = 7 -> "7"
      [] d = 8 -> "8" [] d = 9 -> "9"

RECURSIVE IntToStr(_)
IntToStr(n) ==
    IF n < 10 THEN <<DigitChar(n)>>
    ELSE IntToStr(n \div 10) \o <<DigitChar(n % 10)>>

----------------------------------------------------------------------------
\* Python dicts (insertion ordered) and files

DictKeys(d) == {d[i].k : i \in 1..Len(d)}

DictHas(d, key) == \E i \in 1..Len(d) : d[i].k = key

DictPos(d, key) == CHOOSE i \in 1..Len(d) : d[i].k = key

DictGet(d, key) == d[DictPos(d, key)].v

\* d[key] = val : replaces in place, appends a new key
DictSet(d, key, val) ==
    IF DictHas(d, key)
    THEN [d EXCEPT ![DictPos(d, key)] = [k |-> key, v |-> val]]
    ELSE Append(d, [k |-> key, v |-> val])

RECURSIVE DictUpdate(_, _)
\* d.update(e)
DictUpdate(d, e) ==
    IF e = <<>> THEN d
    ELSE DictUpdate(DictSet(d, Head(e).k, Head(e).v), Tail(e))

NoFile == [exists |-> FALSE, data |-> <<>>]

FileOf(d) == [exists |-> TRUE, data |-> d]

----------------------------------------------------------------------------
\* parse.py

\* the manifests and the lines the model downloads
Header == <<"#","E","X","T","M","3","U">>
ExtinfA == <<"#","E","X","T","I","N","F",":","-","1"," ","t","v","g","-","i","d","=","\"","1","\"",",","A">>
ExtinfB == <<"#","E","X","T","I","N","F",":","-","1",",","B">>
UrlLineA == <<"h","t","t","p",":","/","/","a","/","\r">>
OtherLine == <<"#","E","X","T","V","L","C","O","P","T">>
\* the header after a form feed and before an ideographic space
HeaderPadded == <<"\f","#","E","X","T","M","3","U","U+3000">>

SourceUrls == {<<"s", "1">>, <<"s", "2">>}

LineSet == {ExtinfA, ExtinfB, UrlLineA, OtherLine}

\* two longer bodies: two pairs, and a dropped metadata line followed by a
\* pair and a lone endpoint line
LongBodies ==
    {<<ExtinfA, UrlLineA, ExtinfB, UrlLineA>>,
     <<ExtinfA, ExtinfB, UrlLineA, UrlLineA>>}

Bodies == SeqsUpTo(LineSet, MaxBodyLines) \cup LongBodies

\* content.split('\n') of the downloads: well-formed manifests (the text ends
\* with a newline, so the last element is the empty string), a manifest whose
\* header line has whitespace around it, and downloads whose first line is
\* not the header
Manifests ==
    {<<Header>> \o b \o << <<>> >> : b \in Bodies}
        \cup {<<HeaderPadded, ExtinfB, UrlLineA, <<>> >>}
        \cup {b \o << <<>> >> : b \in {x \in Bodies : Len(x) = 1}}

ExtinfPrefix == <<"#","E","X","T","I","N","F">>
HttpPrefix == <<"h","t","t","p">>
\* the four characters of the literal returned at line 101, by code point
UnknownName == <<"U+672A", "U+77E5", "U+9891", "U+9053">>

AttributeKeys == <<"tvg-id", "tvg-name", "tvg-logo", "group-title">>

AttributePattern(key) ==
    CASE key = "tvg-id" -> <<"t","v","g","-","i","d","=","\"">>
      [] key = "tvg-name" -> <<"t","v","g","-","n","a","m","e","=","\"">>
      [] key = "tvg-logo" -> <<"t","v","g","-","l","o","g","o","=","\"">>
      [] key = "group-title" -> <<"g","r","o","u","p","-","t","i","t","l","e","=","\"">>

\* re.search(r',([^,]+)$', extinf_line): the text after the last comma, when
\* there is a comma and it is not the last character
extract_channel_name(extinf_line) ==
    LET commas == {i \in 1..Len(extinf_line) : extinf_line[i] = ","}
    IN  IF commas = {} THEN UnknownName
        ELSE LET last == CHOOSE i \in commas : \A j \in commas : j <= i
             IN  IF last = Len(extinf_line) THEN UnknownName
                 ELSE Strip(SubSeq(extinf_line, last + 1, Len(extinf_line)))

\* re.search(key="([^"]*)", extinf_line) for one key: <<>> is no match,
\* <<value>> is group(1)
MatchAttribute(key, extinf_line) ==
    LET pat == AttributePattern(key)
        at == Find(extinf_line, pat)
    IN  IF at = 0 THEN <<>>
        ELSE LET rest == SubSeq(extinf_line, at + Len(pat), Len(extinf_line))
                 quote == Find(rest, <<"\"">>)
             IN  IF quote = 0 THEN <<>>
                 ELSE <<SubSeq(rest, 1, quote - 1)>>

RECURSIVE ExtractFrom(_, _)
ExtractFrom(i, extinf_line) ==
    IF i > Len(AttributeKeys) THEN <<>>
    ELSE LET m == MatchAttribute(AttributeKeys[i], extinf_line)
         IN  (IF m = <<>> THEN <<>>
              ELSE <<[k |-> AttributeKeys[i], v |-> m[1]]>>)
             \o ExtractFrom(i + 1, extinf_line)

extract_attributes(extinf_line) == ExtractFrom(1, extinf_line)

\* ChannelKey numbering the entries from 1
ChannelKeyFromOne(url, index) == url \o <<"_">> \o IntToStr(index + 1)

\* f"{m3u_url}_{channel_index}"
ChannelKey(url, index) == url \o <<"_">> \o IntToStr(index)

\* ValidHeader without the test of the first line
ValidHeaderNonEmpty(ls) == ls # <<>>

\* the header test of line 30
ValidHeader(ls) == ls # <<>> /\ StartsWith(Strip(ls[1]), Header)

\* ScanLine with line 62 left out: the pending entry is not cleared
ScanLineKeepsPending(url, st, raw) ==
    LET line == Strip(raw)
    IN  IF line = <<>> THEN st
        ELSE IF StartsWith(line, ExtinfPrefix)
        THEN [st EXCEPT !.current_channel_info =
                 <<[name |-> extract_channel_name(line),
                    attributes |-> extract_attributes(line)]>>]
        ELSE IF StartsWith(line, HttpPrefix) /\ st.current_channel_info # <<>>
        THEN [st EXCEPT
                 !.channels =
                     DictSet(st.channels, ChannelKey(url, st.channel_index),
                         [source_url |-> url,
                          channel_name |-> st.current_channel_info[1].name,
                          stream_url |-> line,
                          attributes |-> st.current_channel_info[1].attributes]),
                 !.channel_index = st.channel_index + 1]
        ELSE st

\* one iteration of the loop of lines 38-62 on the locals
\* st = [channels, current_channel_info, channel_index]
ScanLine(url, st, raw) ==
    LET line == Strip(raw)
    IN  IF line = <<>> THEN st
        ELSE IF StartsWith(line, ExtinfPrefix)
        THEN [st EXCEPT !.current_channel_info =
                 <<[name |-> extract_channel_name(line),
                    attributes |-> extract_attributes(line)]>>]
        ELSE IF StartsWith(line, HttpPrefix)
        THEN IF st.current_channel_info # <<>>
             THEN [channels |->
                       DictSet(st.channels, ChannelKey(url, st.channel_index),
                           [source_url |-> url,
                            channel_name |-> st.current_channel_info[1].name,
                            stream_url |-> line,
                            attributes |-> st.current_channel_info[1].attributes]),
                   current_channel_info |-> <<>>,
                   channel_index |-> st.channel_index + 1]
             ELSE st
        ELSE st

\* MergeChannels appending the new entries instead of upserting them
MergeChannelsAppend(file, new) ==
    IF file.exists THEN file.data \o new ELSE new

\* lines 65-77: the data written back to the output file
MergeChannels(file, new) ==
    IF file.exists THEN DictUpdate(file.data, new) ELSE new

ParseLocals == [channels |-> channels,
                current_channel_info |-> current_channel_info,
                channel_index |-> channel_index]

ParseOk(n) == [success |-> TRUE, total_channels |-> n, error |-> "none"]

ParseError(why) == [success |-> FALSE, total_channels |-> 0, error |-> why]

IdleArrange ==
    /\ playable_channels = <<>>
    /\ entry_idx = 0
    /\ grouped_channels = <<>>
    /\ group_idx = 0
    /\ channels_arrange_json = NoFile

IdleRecheck ==
    /\ arranged = <<>>
    /\ group_pos = 0
    /\ final_channels = <<>>
    /\ checked_groups = 0
    /\ channels_final_json = NoFile
    /\ probe_log = <<>>
    /\ probed = <<>>
    /\ recheck_at = "none"
    /\ child_pos = 0
    /\ main_playable = FALSE
    /\ playable_childlist = <<>>
    /\ recheck_raised = FALSE
    /\ run_no = 1
    /\ seen_playable = {}

IdleExtract ==
    /\ metadata_line = <<>>
    /\ extracted_name = <<>>
    /\ extracted_attributes = <<>>

IdleCheck ==
    /\ check_channels = <<>>
    /\ check_idx = 0
    /\ check_playable = <<>>
    /\ checked_count = 0
    /\ playable_json = NoFile
    /\ last_outcome = "none"
    /\ probe_raised = FALSE
    /\ check_result = "none"

IdleSync ==
    /\ sync_channels = <<>>
    /\ sync_idx = 0
    /\ db_channels = <<>>
    /\ db_sources = <<>>
    /\ db_serial = [channels |-> 0, channel_sources |-> 0]
    /\ success_count = 0
    /\ error_count = 0
    /\ sync_errors = <<>>
    /\ insert_log = <<>>
    /\ sync_result = "none"
    /\ sync_child = 0
    /\ sync_channel_id = 0
    /\ api_calls = 0
    /\ api_result = "none"

IdleParse ==
    /\ channels_json = NoFile
    /\ m3u_url = <<>>
    /\ lines = <<>>
    /\ line_idx = 0
    /\ channels = <<>>
    /\ current_channel_info = <<>>
    /\ channel_index = 0
    /\ parse_runs = 0
    /\ parse_result = ParseError("none")

\* main() of parse.py has removed channels.json and is about to loop over
\* the manifest urls
InitParse ==
    /\ pc = "idle"
    /\ IdleParse
    /\ IdleArrange
    /\ IdleRecheck
    /\ IdleExtract
    /\ IdleCheck
    /\ IdleSync

\* lines 20-35: download, split, header accepted, locals initialised
ParseStart ==
    /\ pc = "idle"
    /\ parse_runs < MaxParseRuns
    /\ \E url \in SourceUrls, content \in Manifests :
          /\ ValidHeader(content)
          /\ m3u_url' = url
          /\ lines' = content
    /\ line_idx' = 1
    /\ channels' = <<>>
    /\ current_channel_info' = <<>>
    /\ channel_index' = 0
    /\ parse_result' = ParseError("none")
    /\ pc' = "scan"
    /\ UNCHANGED <<channels_json, parse_runs>>
    /\ UNCHANGED <<arrangeVars, recheckVars, extractVars, checkVars, syncVars>>

\* lines 23-31: the download's first line is not the header, the call
\* returns an error; lines keeps the rejected download
ParseFormatError ==
    /\ pc = "idle"
    /\ parse_runs < MaxParseRuns
    /\ \E url \in SourceUrls, content \in Manifests :
          /\ ~ValidHeader(content)
          /\ m3u_url' = url
          /\ lines' = content
    /\ parse_result' = ParseError("format")
    /\ parse_runs' = parse_runs + 1
    /\ UNCHANGED <<channels_json, line_idx, channels,
                   current_channel_info, channel_index, pc>>
    /\ UNCHANGED <<arrangeVars, recheckVars, extractVars, checkVars, syncVars>>

\* lines 23-24, 90-91: the download raises, the call returns an error
ParseFetchError ==
    /\ pc = "idle"
    /\ parse_runs < MaxParseRuns
    /\ \E url \in SourceUrls : m3u_url' = url
    /\ lines' = <<>>
    /\ parse_result' = ParseError("download")
    /\ parse_runs' = parse_runs + 1
    /\ UNCHANGED <<channels_json, line_idx, channels,
                   current_channel_info, channel_index, pc>>
    /\ UNCHANGED <<arrangeVars, recheckVars, extractVars, checkVars, syncVars>>

\* lines 38-62: one iteration of the loop over the lines
ParseLine ==
    /\ pc = "scan"
    /\ line_idx <= Len(lines)
    /\ LET st == ScanLine(m3u_url, ParseLocals, lines[line_idx])
       IN  /\ channels' = st.channels
           /\ current_channel_info' = st.current_channel_info
           /\ channel_index' = st.channel_index
    /\ line_idx' = line_idx + 1
    /\ UNCHANGED <<channels_json, m3u_url, lines, parse_runs, parse_result, pc>>
    /\ UNCHANGED <<arrangeVars, recheckVars, extractVars, checkVars, syncVars>>

\* lines 64-88: merge into the output file, write it, return
ParseMerge ==
    /\ pc = "scan"
    /\ line_idx > Len(lines)
    /\ channels_json' = FileOf(MergeChannels(channels_json, channels))
    /\ parse_result' = ParseOk(Len(channels))
    /\ parse_runs' = parse_runs + 1
    /\ lines' = <<>>
    /\ line_idx' = 0
    /\ m3u_url' = <<>>
    /\ channels' = <<>>
    /\ current_channel_info' = <<>>
    /\ channel_index' = 0
    /\ pc' = "idle"
    /\ UNCHANGED <<arrangeVars, recheckVars, extractVars, checkVars, syncVars>>

\* main.py lines 193-203: parse_m3u_to_json of main.py, whose lines 138-191
\* are those of parse.py (20-62), writes the entries of this call over the
\* output file without reading it, and returns
ParseOverwrite ==
    /\ pc = "scan"
    /\ line_idx > Len(lines)
    /\ channels_json' = FileOf(channels)
    /\ parse_result' = ParseOk(Len(channels))
    /\ parse_runs' = parse_runs + 1
    /\ lines' = <<>>
    /\ line_idx' = 0
    /\ m3u_url' = <<>>
    /\ channels' = <<>>
    /\ current_channel_info' = <<>>
    /\ channel_index' = 0
    /\ pc' = "idle"
    /\ UNCHANGED <<arrangeVars, recheckVars, extractVars, checkVars, syncVars>>

\* a call of parse_m3u_to_json of parse.py (from its main() or alone) or of
\* main.py (python main.py parse): the two differ in the last step only
NextParse ==
    \/ ParseStart
    \/ ParseFormatError
    \/ ParseFetchError
    \/ ParseLine
    \/ ParseMerge
    \/ ParseOverwrite

SpecParse == InitParse /\ [][NextParse]_vars

----------------------------------------------------------------------------
\* parse.py: extract_channel_name and extract_attributes on their own

MaxTokens == 2

RECURSIVE Concat(_)
Concat(ss) == IF ss = <<>> THEN <<>> ELSE Head(ss) \o Concat(Tail(ss))

InfPrefix == <<"#","E","X","T","I","N","F",":","-","1">>

\* key="value" tokens of a metadata line: a value, an empty value, a value
\* with a comma in it
TokenId == <<" ","t","v","g","-","i","d","=","\"","1","\"">>
TokenIdEmpty == <<" ","t","v","g","-","i","d","=","\"","\"">>
TokenName == <<" ","t","v","g","-","n","a","m","e","=","\"","x",",","y","\"">>
TokenLogo == <<" ","t","v","g","-","l","o","g","o","=","\"","l","\"">>
TokenGroup == <<" ","g","r","o","u","p","-","t","i","t","l","e","=","\"","g","\"">>
TokenOther == <<" ","x","=","\"","1","\"">>

Tokens == {TokenId, TokenIdEmpty, TokenName, TokenLogo, TokenGroup, TokenOther}

\* ends of a metadata line: no comma, a comma and nothing, a name, a name
\* with blanks around it, a name after two commas
NameTails == { <<>>, <<",">>, <<",","A">>, <<","," ","A"," ">>,
               <<",","A",",","B">> }

MetadataLines ==
    {InfPrefix \o Concat(ts) \o tail :
         ts \in SeqsUpTo(Tokens, MaxTokens), tail \in NameTails}

\* a metadata line is about to be handed to the two functions (lines 43-45)
InitExtract ==
    /\ pc = "extract"
    /\ metadata_line \in MetadataLines
    /\ extracted_name = <<>>
    /\ extracted_attributes = <<>>
    /\ IdleParse
    /\ IdleArrange
    /\ IdleRecheck
    /\ IdleCheck
    /\ IdleSync

\* line 44: "name": extract_channel_name(line)
ExtractName ==
    /\ pc = "extract"
    /\ extracted_name' = <<extract_channel_name(metadata_line)>>
    /\ pc' = "named"
    /\ UNCHANGED <<metadata_line, extracted_attributes>>
    /\ UNCHANGED <<parseVars, arrangeVars, recheckVars, checkVars, syncVars>>

\* line 45: "attributes": extract_attributes(line)
ExtractAttributes ==
    /\ pc = "named"
    /\ extracted_attributes' = <<extract_attributes(metadata_line)>>
    /\ pc' = "extracted"
    /\ UNCHANGED <<metadata_line, extracted_name>>
    /\ UNCHANGED <<parseVars, arrangeVars, recheckVars, checkVars, syncVars>>

NextExtract ==
    \/ ExtractName
    \/ ExtractAttributes

SpecExtract == InitExtract /\ [][NextExtract]_vars

----------------------------------------------------------------------------
\* arrange_channel.py

HttpsScheme == <<"h","t","t","p","s",":","/","/">>
HttpScheme == <<"h","t","t","p",":","/","/">>

\* endpoints of the entries the model groups: one per priority class, and one
\* in no class
UrlHttps4 == <<"h","t","t","p","s",":","/","/","a","/">>
UrlHttp4 == <<"h","t","t","p",":","/","/","b","/">>
UrlHttps6 == <<"h","t","t","p","s",":","/","/","[","c","]","/">>
UrlHttp6 == <<"h","t","t","p",":","/","/","[","d","]","/">>
UrlNoClass == <<"h","t","t","p",":","e">>

ArrangeUrls == {UrlHttps4, UrlHttp4, UrlHttps6, UrlHttp6, UrlNoClass}

ChannelNames == {<<"A">>, <<"B">>}

\* the manifest an entry came from and the attributes its metadata line gave
Origins ==
    {[source_url |-> <<"s", "1">>, attributes |-> <<>>],
     [source_url |-> <<"s", "2">>,
      attributes |-> <<[k |-> "tvg-id", v |-> <<"1">>]>>]}

EntryValues(urls) ==
    {[source_url |-> o.source_url, channel_name |-> n, stream_url |-> u,
      attributes |-> o.attributes] : o \in Origins, n \in ChannelNames, u \in urls}

\* the contents of playable_channels.json: entries under their store keys
PlayableInputs(urls, n) ==
    {[i \in 1..Len(vs) |->
         [k |-> ChannelKey(vs[i].source_url, i - 1), v |-> vs[i]]] :
        vs \in SeqsUpTo(EntryValues(urls), n)}

\* an input of four entries of one name whose last entry is of the best
\* class: http over IPv4, https over IPv6, http over IPv6, https over IPv4
SwapPlayable ==
    LET urls == <<UrlHttp4, UrlHttps6, UrlHttp6, UrlHttps4>>
    IN  [i \in 1..4 |->
            [k |-> ChannelKey(<<"s", "1">>, i - 1),
             v |-> [source_url |-> <<"s", "1">>,
                    channel_name |-> <<"A">>,
                    stream_url |-> urls[i],
                    attributes |-> <<>>]]]

\* an input of two names with two entries each
TwoGroupsPlayable ==
    LET names == <<"A", "A", "B", "B">>
        urls == <<UrlHttps4, UrlHttp4, UrlHttps4, UrlHttp4>>
    IN  [i \in 1..4 |->
            [k |-> ChannelKey(<<"s", "1">>, i - 1),
             v |-> [source_url |-> <<"s", "1">>,
                    channel_name |-> <<names[i]>>,
                    stream_url |-> urls[i],
                    attributes |-> <<>>]]]

\* lines 30-36: the group record made of the first entry of a name
NewGroup(channel_info) ==
    [source_url |-> channel_info.source_url,
     channel_name |-> channel_info.channel_name,
     stream_url |-> channel_info.stream_url,
     attributes |-> channel_info.attributes,
     childlist |-> <<>>]

\* lines 39-43 and 89-93: the record appended to a childlist
ChildOf(e) ==
    [source_url |-> e.source_url, stream_url |-> e.stream_url,
     attributes |-> e.attributes]

\* lines 25-43: one iteration of the grouping loop
GroupEntry(grouped, channel_info) ==
    LET channel_name == channel_info.channel_name
    IN  IF ~DictHas(grouped, channel_name)
        THEN DictSet(grouped, channel_name, NewGroup(channel_info))
        ELSE LET g == DictGet(grouped, channel_name)
             IN  DictSet(grouped, channel_name,
                     [g EXCEPT !.childlist = Append(@, ChildOf(channel_info))])

\* the tests of lines 58, 66, 74, 82
MatchesPass(pass, stream_url) ==
    CASE pass = 1 -> StartsWith(stream_url, HttpsScheme) /\ ~Contains(stream_url, "[")
      [] pass = 2 -> StartsWith(stream_url, HttpScheme) /\ ~Contains(stream_url, "[")
      [] pass = 3 -> StartsWith(stream_url, HttpsScheme) /\ Contains(stream_url, "[")
      [] pass = 4 -> StartsWith(stream_url, HttpScheme) /\ Contains(stream_url, "[")

\* one of the four loops: the index of the first entry matching, 0 for none
FirstMatch(pass, all_entries) ==
    LET hits == {i \in 1..Len(all_entries) :
                    MatchesPass(pass, all_entries[i].stream_url)}
    IN  IF hits = {} THEN 0 ELSE CHOOSE i \in hits : \A j \in hits : i <= j

RECURSIVE BestFrom(_, _, _)
BestFrom(order, k, all_entries) ==
    IF k > Len(order) THEN 0
    ELSE IF FirstMatch(order[k], all_entries) # 0
         THEN FirstMatch(order[k], all_entries)
         ELSE BestFrom(order, k + 1, all_entries)

\* BestEntry with the second and third pass exchanged
BestEntrySecureFirst(all_entries) == BestFrom(<<1, 3, 2, 4>>, 1, all_entries)

\* lines 52-84: the index in all_entries of best_entry, 0 for None
BestEntry(all_entries) == BestFrom(<<1, 2, 3, 4>>, 1, all_entries)

\* SwapPrimary putting the displaced entry at the head of the childlist
SwapPrimaryAtHead(channel_group, best_entry) ==
    LET appended == <<ChildOf(channel_group)>> \o channel_group.childlist
    IN  [channel_group EXCEPT
            !.source_url = best_entry.source_url,
            !.stream_url = best_entry.stream_url,
            !.attributes = best_entry.attributes,
            !.childlist =
                SelectSeq(appended,
                    LAMBDA entry : entry.stream_url # best_entry.stream_url)]

\* SwapPrimary without the append of lines 89-93
SwapPrimaryDropsOld(channel_group, best_entry) ==
    [channel_group EXCEPT
        !.source_url = best_entry.source_url,
        !.stream_url = best_entry.stream_url,
        !.attributes = best_entry.attributes,
        !.childlist =
            SelectSeq(channel_group.childlist,
                LAMBDA entry : entry.stream_url # best_entry.stream_url)]

\* lines 88-102: the former primary is appended, the best entry becomes the
\* primary, the childlist is filtered by the best entry's stream_url
SwapPrimary(channel_group, best_entry) ==
    LET appended == Append(channel_group.childlist, ChildOf(channel_group))
    IN  [channel_group EXCEPT
            !.source_url = best_entry.source_url,
            !.stream_url = best_entry.stream_url,
            !.attributes = best_entry.attributes,
            !.childlist =
                SelectSeq(appended,
                    LAMBDA entry : entry.stream_url # best_entry.stream_url)]

\* lines 47-102: one iteration of the post-processing loop.  all_entries[1]
\* is the group record itself; a childlist record never equals it (it has no
\* channel_name), so line 87 holds exactly when best_entry is a child
ReorderGroup(channel_group) ==
    LET all_entries == <<ChildOf(channel_group)>> \o channel_group.childlist
        best == BestEntry(all_entries)
    IN  IF best > 1
        THEN SwapPrimary(channel_group, all_entries[best])
        ELSE channel_group

RECURSIVE GroupAll(_, _, _)
GroupAll(grouped, input, i) ==
    IF i > Len(input) THEN grouped
    ELSE GroupAll(GroupEntry(grouped, input[i].v), input, i + 1)

\* what arrange_channels writes for an input
ArrangeResult(input) ==
    LET grouped == GroupAll(<<>>, input, 1)
    IN  [i \in 1..Len(grouped) |->
            [k |-> grouped[i].k, v |-> ReorderGroup(grouped[i].v)]]

\* what an earlier run left in channels_final.json
StaleFinal ==
    <<[k |-> <<"Z">>,
       v |-> [source_url |-> <<"s", "9">>,
              channel_name |-> <<"Z">>,
              stream_url |-> UrlHttp4,
              attributes |-> <<>>,
              childlist |-> <<>>]]>>

\* arrange_channels has loaded playable_channels.json (lines 17-23); main()
\* has removed channels_arrange.json (lines 125-126), channels_final.json may
\* be there from an earlier run
InitArrange ==
    /\ pc = "group"
    /\ playable_channels \in
           PlayableInputs(ArrangeUrls, MaxEntries) \cup {SwapPlayable}
    /\ entry_idx = 1
    /\ grouped_channels = <<>>
    /\ group_idx = 0
    /\ channels_arrange_json = NoFile
    /\ IdleParse
    /\ arranged = <<>>
    /\ group_pos = 0
    /\ final_channels = <<>>
    /\ checked_groups = 0
    /\ channels_final_json \in {NoFile, FileOf(StaleFinal)}
    /\ probe_log = <<>>
    /\ probed = <<>>
    /\ recheck_at = "none"
    /\ child_pos = 0
    /\ main_playable = FALSE
    /\ playable_childlist = <<>>
    /\ recheck_raised = FALSE
    /\ run_no = 1
    /\ seen_playable = {}
    /\ IdleExtract
    /\ IdleCheck
    /\ IdleSync

\* lines 25-43
ArrangeGroupEntry ==
    /\ pc = "group"
    /\ entry_idx <= Len(playable_channels)
    /\ grouped_channels' =
           GroupEntry(grouped_channels, playable_channels[entry_idx].v)
    /\ entry_idx' = entry_idx + 1
    /\ UNCHANGED <<pc, playable_channels, group_idx, channels_arrange_json>>
    /\ UNCHANGED <<parseVars, recheckVars, extractVars, checkVars, syncVars>>

\* the grouping loop ends, the post-processing loop starts
ArrangeStartReorder ==
    /\ pc = "group"
    /\ entry_idx > Len(playable_channels)
    /\ pc' = "reorder"
    /\ group_idx' = 1
    /\ UNCHANGED <<playable_channels, entry_idx, grouped_channels,
                   channels_arrange_json>>
    /\ UNCHANGED <<parseVars, recheckVars, extractVars, checkVars, syncVars>>

\* lines 47-102
ArrangeReorderGroup ==
    /\ pc = "reorder"
    /\ group_idx <= Len(grouped_channels)
    /\ grouped_channels' =
           [grouped_channels EXCEPT
               ![group_idx].v = ReorderGroup(grouped_channels[group_idx].v)]
    /\ group_idx' = group_idx + 1
    /\ UNCHANGED <<pc, playable_channels, entry_idx, channels_arrange_json>>
    /\ UNCHANGED <<parseVars, recheckVars, extractVars, checkVars, syncVars>>

\* lines 104-114
ArrangeSave ==
    /\ pc = "reorder"
    /\ group_idx > Len(grouped_channels)
    /\ channels_arrange_json' = FileOf(grouped_channels)
    /\ pc' = "arranged"
    /\ UNCHANGED <<playable_channels, entry_idx, grouped_channels, group_idx>>
    /\ UNCHANGED <<parseVars, recheckVars, extractVars, checkVars, syncVars>>

\* main() lines 128-149, after arrange_channels returned success: the
\* content of channels_arrange.json is written over channels_final.json
\* (which is emptied first when it exists)
ArrangeCopyFinal ==
    /\ pc = "arranged"
    /\ channels_final_json' = FileOf(channels_arrange_json.data)
    /\ pc' = "copied"
    /\ UNCHANGED arrangeVars
    /\ UNCHANGED <<arranged, group_pos, final_channels, checked_groups,
                   probe_log, probed, recheck_at, child_pos, main_playable,
                   playable_childlist, recheck_raised, run_no, seen_playable>>
    /\ UNCHANGED <<parseVars, extractVars, checkVars, syncVars>>

NextArrange ==
    \/ ArrangeGroupEntry
    \/ ArrangeStartReorder
    \/ ArrangeReorderGroup
    \/ ArrangeSave
    \/ ArrangeCopyFinal

SpecArrange == InitArrange /\ [][NextArrange]_vars

----------------------------------------------------------------------------
\* re_check.py

\* line 109: the checkpoint interval
BatchSize == 10

\* what requests.head can do: answer with a status, or raise
ProbeOutcomes == {"200", "404", "Timeout", "RequestException", "Exception"}

\* the outcomes that are exceptions raised by requests.head
Raises(outcome) == outcome \in {"Timeout", "RequestException", "Exception"}

\* Caught with the clause for requests.exceptions.Timeout only
CaughtTimeoutOnly(outcome) == outcome = "Timeout"

\* lines 48-53 and 73-78 (check.py lines 47-52): the except clauses around
\* requests.head: Timeout, RequestException and Exception
Caught(outcome) == outcome \in {"Timeout", "RequestException", "Exception"}

\* an exception that no clause around requests.head catches leaves the loop
\* for the except clauses of lines 122-127 (check.py lines 70-75)
Escapes(outcome) == Raises(outcome) /\ ~Caught(outcome)

\* lines 39-53: only an answer with status 200 counts as playable; another
\* status and each of the three except clauses leave main_playable False
Playable(stream_url, outcome) == stream_url # <<>> /\ outcome = "200"

RecheckUrls == {UrlHttps4, UrlHttp4}

\* a long input: groups of one entry each, under distinct names
LongPlayable ==
    [i \in 1..NumLongGroups |->
        [k |-> ChannelKey(<<"s", "1">>, i - 1),
         v |-> [source_url |-> <<"s", "1">>,
                channel_name |-> <<"c">> \o IntToStr(i),
                stream_url |-> UrlHttps4,
                attributes |-> <<>>]]]

\* an input of three entries of one name in three priority classes: https
\* over IPv4, then https over IPv6, then http over IPv4
MixedPlayable ==
    LET urls == <<UrlHttps4, UrlHttps6, UrlHttp4>>
    IN  [i \in 1..3 |->
            [k |-> ChannelKey(<<"s", "1">>, i - 1),
             v |-> [source_url |-> <<"s", "1">>,
                    channel_name |-> <<"A">>,
                    stream_url |-> urls[i],
                    attributes |-> <<>>]]]

\* an input of four entries of one name from two manifests, the first of
\* them the best: a group with three overflow members
FourPlayable ==
    LET urls == <<UrlHttps4, UrlHttps4, UrlHttp4, UrlHttp4>>
        origins == <<1, 2, 1, 2>>
        sources == << <<"s", "1">>, <<"s", "2">> >>
        attrs == << <<>>, <<[k |-> "tvg-id", v |-> <<"1">>]>> >>
    IN  [i \in 1..4 |->
            [k |-> ChannelKey(sources[origins[i]], i - 1),
             v |-> [source_url |-> sources[origins[i]],
                    channel_name |-> <<"A">>,
                    stream_url |-> urls[i],
                    attributes |-> attrs[origins[i]]]]]

\* the contents of channels_arrange.json, as arrange_channels writes them
ArrangedInputs ==
    {ArrangeResult(input) :
        input \in PlayableInputs(RecheckUrls, MaxRecheckEntries)
                     \cup {LongPlayable, MixedPlayable, FourPlayable,
                           TwoGroupsPlayable}}

\* the endpoints of the members of the groups
EndpointsOf(groups) ==
    UNION {{groups[i].v.stream_url}
           \cup {groups[i].v.childlist[j].stream_url :
                    j \in 1..Len(groups[i].v.childlist)} :
           i \in 1..Len(groups)}

\* some probe of this endpoint has answered 200 in the run
SeenPlayable(url) ==
    \E i \in 1..Len(probe_log) :
        \/ arranged[i].v.stream_url = url /\ probe_log[i].main
        \/ \E j \in 1..Len(probe_log[i].childs) :
              arranged[i].v.childlist[j].stream_url = url /\ probe_log[i].childs[j]

\* what requests.head can do for an endpoint: anything in a first run; in a
\* run on the output of the first run the endpoint answers as it did there
OutcomesOf(stream_url) ==
    IF run_no = 1 THEN ProbeOutcomes
    ELSE IF stream_url \in seen_playable THEN {"200"}
    ELSE ProbeOutcomes \ {"200"}

\* AfterMain passing over the children of a group whose primary answered 200
AfterMainSkipsChildren(channel_group, playable) ==
    IF playable \/ channel_group.childlist = <<>> THEN "decide" ELSE "child"

\* lines 56-59: after the primary's probe the loop over childlist starts,
\* whatever the probe answered; over an empty childlist it ends at once
AfterMain(channel_group, playable) ==
    IF channel_group.childlist = <<>> THEN "decide" ELSE "child"

\* AppendPlayable keeping every child that was probed
AppendPlayableAlways(children, child_entry, outcome) ==
    Append(children, child_entry)

\* lines 67-69: the child is appended when its probe answered 200
AppendPlayable(children, child_entry, outcome) ==
    IF outcome = "200" THEN Append(children, child_entry) ELSE children

\* PromoteFirst taking the last playable child instead of the first
PromoteLast(channel_group, children) ==
    LET last_playable == children[Len(children)]
    IN  [source_url |-> last_playable.source_url,
         channel_name |-> channel_group.channel_name,
         stream_url |-> last_playable.stream_url,
         attributes |-> last_playable.attributes,
         childlist |-> SubSeq(children, 1, Len(children) - 1)]

\* PromoteFirst leaving the group's attributes in place (line 97 taking them
\* from channel_group)
PromoteFirstOldAttributes(channel_group, children) ==
    LET first_playable == children[1]
    IN  [source_url |-> first_playable.source_url,
         channel_name |-> channel_group.channel_name,
         stream_url |-> first_playable.stream_url,
         attributes |-> channel_group.attributes,
         childlist |-> Tail(children)]

\* PromoteFirst without the slice of line 98
PromoteFirstKeepsAll(channel_group, children) ==
    LET first_playable == children[1]
    IN  [source_url |-> first_playable.source_url,
         channel_name |-> channel_group.channel_name,
         stream_url |-> first_playable.stream_url,
         attributes |-> first_playable.attributes,
         childlist |-> children]

\* lines 92-99: the first playable child becomes the primary
PromoteFirst(channel_group, children) ==
    LET first_playable == children[1]
    IN  [source_url |-> first_playable.source_url,
         channel_name |-> channel_group.channel_name,
         stream_url |-> first_playable.stream_url,
         attributes |-> first_playable.attributes,
         childlist |-> Tail(children)]

\* lines 81-104: <<>> when the group is removed, <<group>> when it is kept
DecideGroup(channel_group, playable, children) ==
    IF playable
    THEN <<[source_url |-> channel_group.source_url,
            channel_name |-> channel_group.channel_name,
            stream_url |-> channel_group.stream_url,
            attributes |-> channel_group.attributes,
            childlist |-> children]>>
    ELSE IF children # <<>>
    THEN <<PromoteFirst(channel_group, children)>>
    ELSE <<>>

\* line 109
CheckpointDue(checked, total) == checked % BatchSize = 0 \/ checked = total

\* line 110: open(output_file, 'w') has emptied the file and json.dump has
\* not written it yet: the file is there and no group can be read from it
TruncatedFile == [exists |-> TRUE, data |-> <<>>, truncated |-> TRUE]

\* main() has removed channels_final.json, recheck_arranged_channels has
\* loaded channels_arrange.json (lines 25-31, 131-132); main_playable and
\* playable_childlist are not bound yet
InitRecheck ==
    /\ pc = "recheck"
    /\ arranged \in ArrangedInputs
    /\ group_pos = 1
    /\ final_channels = <<>>
    /\ checked_groups = 0
    /\ channels_final_json = NoFile
    /\ probe_log = <<>>
    /\ probed = <<>>
    /\ recheck_at = "main"
    /\ child_pos = 0
    /\ main_playable = FALSE
    /\ playable_childlist = <<>>
    /\ recheck_raised = FALSE
    /\ run_no = 1
    /\ seen_playable = {}
    /\ IdleParse
    /\ IdleArrange
    /\ IdleExtract
    /\ IdleCheck
    /\ IdleSync

\* lines 34-57: the next group is taken and requests.head is called for its
\* primary; the call returns or raises
RecheckProbeMain ==
    /\ pc = "recheck"
    /\ recheck_at = "main"
    /\ group_pos <= Len(arranged)
    /\ LET channel_group == arranged[group_pos].v
           main_stream_url == channel_group.stream_url
       IN  IF main_stream_url = <<>>
           THEN /\ main_playable' = FALSE
                /\ probe_log' =
                       Append(probe_log, [main |-> FALSE, childs |-> <<>>])
                /\ playable_childlist' = <<>>
                /\ child_pos' = 1
                /\ recheck_at' = AfterMain(channel_group, FALSE)
                /\ UNCHANGED <<pc, probed, recheck_raised>>
           ELSE \E outcome \in OutcomesOf(main_stream_url) :
                  /\ probed' = Append(probed, main_stream_url)
                  /\ recheck_raised' = (recheck_raised \/ Raises(outcome))
                  /\ IF Escapes(outcome)
                     THEN /\ pc' = "failed"
                          /\ UNCHANGED <<main_playable, probe_log,
                                         playable_childlist, child_pos,
                                         recheck_at>>
                     ELSE /\ main_playable' = Playable(main_stream_url, outcome)
                          /\ probe_log' =
                                 Append(probe_log,
                                     [main |-> Playable(main_stream_url, outcome),
                                      childs |-> <<>>])
                          /\ playable_childlist' = <<>>
                          /\ child_pos' = 1
                          /\ recheck_at' =
                                 AfterMain(channel_group,
                                     Playable(main_stream_url, outcome))
                          /\ UNCHANGED pc
    /\ UNCHANGED <<arranged, group_pos, final_channels, checked_groups,
                   channels_final_json, run_no, seen_playable>>
    /\ UNCHANGED <<parseVars, arrangeVars, extractVars, checkVars, syncVars>>

\* lines 59-78: one iteration of the loop over childlist: requests.head is
\* called for the child; the call returns or raises
RecheckProbeChild ==
    /\ pc = "recheck"
    /\ recheck_at = "child"
    /\ LET childlist == arranged[group_pos].v.childlist
           child_entry == childlist[child_pos]
           child_stream_url == child_entry.stream_url
           after == IF child_pos < Len(childlist) THEN "child" ELSE "decide"
       IN  IF child_stream_url = <<>>
           THEN /\ probe_log' =
                       [probe_log EXCEPT
                           ![Len(probe_log)].childs = Append(@, FALSE)]
                /\ child_pos' = child_pos + 1
                /\ recheck_at' = after
                /\ UNCHANGED <<pc, probed, playable_childlist, recheck_raised>>
           ELSE \E outcome \in OutcomesOf(child_stream_url) :
                  /\ probed' = Append(probed, child_stream_url)
                  /\ recheck_raised' = (recheck_raised \/ Raises(outcome))
                  /\ IF Escapes(outcome)
                     THEN /\ pc' = "failed"
                          /\ UNCHANGED <<probe_log, playable_childlist,
                                         child_pos, recheck_at>>
                     ELSE /\ playable_childlist' =
                                 AppendPlayable(playable_childlist,
                                                child_entry, outcome)
                          /\ probe_log' =
                                 [probe_log EXCEPT
                                     ![Len(probe_log)].childs =
                                         Append(@, outcome = "200")]
                          /\ child_pos' = child_pos + 1
                          /\ recheck_at' = after
                          /\ UNCHANGED pc
    /\ UNCHANGED <<arranged, group_pos, final_channels, checked_groups,
                   channels_final_json, main_playable, run_no, seen_playable>>
    /\ UNCHANGED <<parseVars, arrangeVars, extractVars, checkVars, syncVars>>

\* lines 81-104: the group is stored in final_channels, or passed over with
\* the continue of line 104
RecheckDecide ==
    /\ pc = "recheck"
    /\ recheck_at = "decide"
    /\ LET channel_name == arranged[group_pos].k
           decided == DecideGroup(arranged[group_pos].v, main_playable,
                                  playable_childlist)
       IN  IF decided = <<>>
           THEN /\ group_pos' = group_pos + 1
                /\ recheck_at' = "main"
                /\ UNCHANGED final_channels
           ELSE /\ final_channels' =
                       DictSet(final_channels, channel_name, decided[1])
                /\ recheck_at' = "count"
                /\ UNCHANGED group_pos
    /\ UNCHANGED <<pc, arranged, checked_groups, channels_final_json,
                   probe_log, probed, child_pos, main_playable,
                   playable_childlist, recheck_raised, run_no, seen_playable>>
    /\ UNCHANGED <<parseVars, arrangeVars, extractVars, checkVars, syncVars>>

\* lines 106-109: the kept group is counted and the test of line 109 made
RecheckCount ==
    /\ pc = "recheck"
    /\ recheck_at = "count"
    /\ checked_groups' = checked_groups + 1
    /\ IF CheckpointDue(checked_groups + 1, Len(arranged))
       THEN /\ recheck_at' = "open"
            /\ UNCHANGED group_pos
       ELSE /\ recheck_at' = "main"
            /\ group_pos' = group_pos + 1
    /\ UNCHANGED <<pc, arranged, final_channels, channels_final_json,
                   probe_log, probed, child_pos, main_playable,
                   playable_childlist, recheck_raised, run_no, seen_playable>>
    /\ UNCHANGED <<parseVars, arrangeVars, extractVars, checkVars, syncVars>>

\* line 110: the output file is opened for writing, which empties it
RecheckOpen ==
    /\ pc = "recheck"
    /\ recheck_at = "open"
    /\ channels_final_json' = TruncatedFile
    /\ recheck_at' = "dump"
    /\ UNCHANGED <<pc, arranged, group_pos, final_channels, checked_groups,
                   probe_log, probed, child_pos, main_playable,
                   playable_childlist, recheck_raised, run_no, seen_playable>>
    /\ UNCHANGED <<parseVars, arrangeVars, extractVars, checkVars, syncVars>>

\* lines 111-112: json.dump has written final_channels and the file is
\* closed; the iteration is over
RecheckDump ==
    /\ pc = "recheck"
    /\ recheck_at = "dump"
    /\ channels_final_json' = FileOf(final_channels)
    /\ recheck_at' = "main"
    /\ group_pos' = group_pos + 1
    /\ UNCHANGED <<pc, arranged, final_channels, checked_groups, probe_log,
                   probed, child_pos, main_playable, playable_childlist,
                   recheck_raised, run_no, seen_playable>>
    /\ UNCHANGED <<parseVars, arrangeVars, extractVars, checkVars, syncVars>>

\* lines 114-120: the loop is over, the function returns success
RecheckReturn ==
    /\ pc = "recheck"
    /\ recheck_at = "main"
    /\ group_pos > Len(arranged)
    /\ pc' = "rechecked"
    /\ UNCHANGED recheckVars
    /\ UNCHANGED <<parseVars, arrangeVars, extractVars, checkVars, syncVars>>

NextRecheck ==
    \/ RecheckProbeMain
    \/ RecheckProbeChild
    \/ RecheckDecide
    \/ RecheckCount
    \/ RecheckOpen
    \/ RecheckDump
    \/ RecheckReturn

SpecRecheck == InitRecheck /\ [][NextRecheck]_vars

----------------------------------------------------------------------------
\* re_check.py run again, on the file the first run has written

\* recheck_arranged_channels(input_file="channels_final.json") after the
\* first call has returned: lines 25-31 load the file, or line 25 raises
\* FileNotFoundError and lines 122-123 return the error; every endpoint is to
\* answer as it did in the first run
RecheckAgain ==
    /\ pc = "rechecked"
    /\ run_no = 1
    /\ run_no' = 2
    /\ IF channels_final_json.exists
       THEN /\ pc' = "recheck"
            /\ arranged' = channels_final_json.data
            /\ group_pos' = 1
            /\ final_channels' = <<>>
            /\ checked_groups' = 0
            /\ recheck_at' = "main"
            /\ probe_log' = <<>>
            /\ probed' = <<>>
            /\ recheck_raised' = FALSE
            /\ seen_playable' =
                   {url \in EndpointsOf(arranged) : SeenPlayable(url)}
       ELSE /\ pc' = "failed"
            /\ UNCHANGED <<arranged, group_pos, final_channels,
                           checked_groups, recheck_at, probe_log, probed,
                           recheck_raised, seen_playable>>
    /\ UNCHANGED <<channels_final_json, child_pos, main_playable,
                   playable_childlist>>
    /\ UNCHANGED <<parseVars, arrangeVars, extractVars, checkVars, syncVars>>

NextRerun ==
    \/ NextRecheck
    \/ RecheckAgain

SpecRerun == InitRecheck /\ [][NextRerun]_vars

----------------------------------------------------------------------------
\* check.py

MaxCheckEntries == 3

CheckBatchSize == 10

\* the entries of channels.json the model probes: with an endpoint, and
\* without one (stream_url missing or empty)
CheckEntryValues ==
    {[source_url |-> o.source_url, channel_name |-> <<"A">>, stream_url |-> u,
      attributes |-> o.attributes] : o \in Origins, u \in {UrlHttps4, <<>>}}

\* the contents of channels.json: short mappings, the empty one included, and
\* a long one
CheckInputs ==
    {[i \in 1..Len(vs) |->
         [k |-> ChannelKey(vs[i].source_url, i - 1), v |-> vs[i]]] :
        vs \in SeqsUpTo(CheckEntryValues, MaxCheckEntries)}
    \cup {LongPlayable}

\* KeepPlayable storing every entry that got an answer
KeepAnswered(playable, key, channel_info, outcome) ==
    IF outcome \in {"200", "404"} THEN DictSet(playable, key, channel_info)
    ELSE playable

\* lines 41-52: the entry is stored when the answer has status 200; another
\* status and the three except clauses store nothing
KeepPlayable(playable, key, channel_info, outcome) ==
    IF outcome = "200" THEN DictSet(playable, key, channel_info)
    ELSE playable

\* line 57
CheckWriteDue(checked, total) ==
    checked % CheckBatchSize = 0 \/ checked = total

\* what an earlier run left in playable_channels.json
StalePlayable ==
    <<[k |-> ChannelKey(<<"s", "9">>, 0),
       v |-> [source_url |-> <<"s", "9">>,
              channel_name |-> <<"Z">>,
              stream_url |-> UrlHttp4,
              attributes |-> <<>>]]>>

\* check_playable_channels_from_json has loaded channels.json (lines 24-30);
\* nothing removes playable_channels.json (lines 77-78 call the function
\* directly), so the file of an earlier run may be there
InitCheck ==
    /\ pc = "check"
    /\ check_channels \in CheckInputs
    /\ check_idx = 1
    /\ check_playable = <<>>
    /\ checked_count = 0
    /\ playable_json \in {NoFile, FileOf(StalePlayable)}
    /\ last_outcome = "none"
    /\ probe_raised = FALSE
    /\ check_result = "none"
    /\ IdleParse
    /\ IdleArrange
    /\ IdleRecheck
    /\ IdleExtract
    /\ IdleSync

\* lines 33-60: one iteration of the loop over the entries, with the probe
\* and the checkpoint write
CheckEntry ==
    /\ pc = "check"
    /\ check_idx <= Len(check_channels)
    /\ LET key == check_channels[check_idx].k
           channel_info == check_channels[check_idx].v
       IN  IF channel_info.stream_url = <<>>
           THEN /\ check_idx' = check_idx + 1
                /\ last_outcome' = "skipped"
                /\ UNCHANGED <<pc, check_playable, checked_count,
                               playable_json, probe_raised, check_result>>
           ELSE \E outcome \in ProbeOutcomes :
                  /\ last_outcome' = outcome
                  /\ probe_raised' = (probe_raised \/ Raises(outcome))
                  /\ IF Escapes(outcome)
                     THEN /\ check_result' = "error"
                          /\ pc' = "checked"
                          /\ UNCHANGED <<check_idx, check_playable,
                                         checked_count, playable_json>>
                     ELSE /\ check_playable' =
                                 KeepPlayable(check_playable, key,
                                              channel_info, outcome)
                          /\ checked_count' = checked_count + 1
                          /\ playable_json' =
                                 IF CheckWriteDue(checked_count',
                                                  Len(check_channels))
                                 THEN FileOf(check_playable')
                                 ELSE playable_json
                          /\ check_idx' = check_idx + 1
                          /\ UNCHANGED <<pc, check_result>>
    /\ UNCHANGED check_channels
    /\ UNCHANGED <<parseVars, arrangeVars, recheckVars, extractVars, syncVars>>

\* lines 62-68: the loop is over, the function returns success
CheckReturn ==
    /\ pc = "check"
    /\ check_idx > Len(check_channels)
    /\ check_result' = "success"
    /\ pc' = "checked"
    /\ UNCHANGED <<check_channels, check_idx, check_playable, checked_count,
                   playable_json, last_outcome, probe_raised>>
    /\ UNCHANGED <<parseVars, arrangeVars, recheckVars, extractVars, syncVars>>

NextCheck ==
    \/ CheckEntry
    \/ CheckReturn

SpecCheck == InitCheck /\ [][NextCheck]_vars

----------------------------------------------------------------------------
\* the two probing stages in the order the scripts are run in: check.py,
\* then arrange_channel.py on the file it wrote, then re_check.py

\* the contents of channels.json: the short mappings and one of two names
PipelineInputs == (CheckInputs \ {LongPlayable}) \cup {TwoGroupsPlayable}

\* check_playable_channels_from_json has loaded channels.json
InitProbe ==
    /\ pc = "check"
    /\ check_channels \in PipelineInputs
    /\ check_idx = 1
    /\ check_playable = <<>>
    /\ checked_count = 0
    /\ playable_json \in {NoFile, FileOf(StalePlayable)}
    /\ last_outcome = "none"
    /\ probe_raised = FALSE
    /\ check_result = "none"
    /\ IdleParse
    /\ IdleArrange
    /\ IdleRecheck
    /\ IdleExtract
    /\ IdleSync

\* arrange_channel.py after check.py: main() removes channels_arrange.json
\* (lines 125-126) and arrange_channels loads playable_channels.json (lines
\* 17-23), or returns an error when the file is not there (lines 116-117)
ArrangeStart ==
    /\ pc = "checked"
    /\ channels_arrange_json' = NoFile
    /\ IF playable_json.exists
       THEN /\ pc' = "group"
            /\ playable_channels' = playable_json.data
            /\ entry_idx' = 1
            /\ grouped_channels' = <<>>
       ELSE /\ pc' = "arrange_error"
            /\ UNCHANGED <<playable_channels, entry_idx, grouped_channels>>
    /\ UNCHANGED group_idx
    /\ UNCHANGED <<parseVars, recheckVars, extractVars, checkVars, syncVars>>

\* re_check.py after arrange_channel.py: main() removes channels_final.json
\* (lines 131-132) and recheck_arranged_channels loads channels_arrange.json
\* (lines 25-31)
RecheckStart ==
    /\ pc = "copied"
    /\ pc' = "recheck"
    /\ channels_final_json' = NoFile
    /\ arranged' = channels_arrange_json.data
    /\ group_pos' = 1
    /\ final_channels' = <<>>
    /\ checked_groups' = 0
    /\ recheck_at' = "main"
    /\ UNCHANGED <<probe_log, probed, child_pos, main_playable,
                   playable_childlist, recheck_raised, run_no, seen_playable>>
    /\ UNCHANGED <<parseVars, arrangeVars, extractVars, checkVars, syncVars>>

NextProbe ==
    \/ NextCheck
    \/ ArrangeStart
    \/ NextArrange
    \/ RecheckStart
    \/ NextRecheck

SpecProbe == InitProbe /\ [][NextProbe]_vars

----------------------------------------------------------------------------
\* sync_database.py

MaxSyncEntries == 1
MaxApiCalls == 1

\* the contents of channels_final.json: mappings of groups (the database
\* sync does not look at the endpoints, the entries share one)
SyncInputs ==
    {ArrangeResult(input) :
        input \in PlayableInputs({UrlHttps4}, MaxSyncEntries)
                     \cup {TwoGroupsPlayable}}

\* what an insert(...).execute() can do: return the inserted row, return no
\* data, or raise
InsertOutcomes == {"inserted", "empty", "raises"}

\* attributes.get(key): <<>> is None
AttrOrNone(attributes, key) ==
    IF DictHas(attributes, key) THEN <<DictGet(attributes, key)>> ELSE <<>>

\* lines 252-261 and 48-57: the row of the table channels, with the id the
\* table gives it
ChannelRow(id, channel_key, channel_info) ==
    [id |-> id,
     channel_key |-> channel_key,
     source_url |-> channel_info.source_url,
     channel_name |-> channel_info.channel_name,
     stream_url |-> channel_info.stream_url,
     tvg_name |-> AttrOrNone(channel_info.attributes, "tvg-name"),
     tvg_id |-> AttrOrNone(channel_info.attributes, "tvg-id"),
     tvg_logo |-> AttrOrNone(channel_info.attributes, "tvg-logo"),
     group_title |-> AttrOrNone(channel_info.attributes, "group-title")]

\* SourceRow without the channel id of line 272
SourceRowOrphan(channel_id, child_source) ==
    [parent_channel_id |-> 0,
     source_url |-> child_source.source_url,
     stream_url |-> child_source.stream_url,
     tvg_name |-> AttrOrNone(child_source.attributes, "tvg-name"),
     tvg_id |-> AttrOrNone(child_source.attributes, "tvg-id"),
     tvg_logo |-> AttrOrNone(child_source.attributes, "tvg-logo"),
     group_title |-> AttrOrNone(child_source.attributes, "group-title")]

\* lines 271-279 and 90-98: the row of the table channel_sources
SourceRow(channel_id, child_source) ==
    [parent_channel_id |-> channel_id,
     source_url |-> child_source.source_url,
     stream_url |-> child_source.stream_url,
     tvg_name |-> AttrOrNone(child_source.attributes, "tvg-name"),
     tvg_id |-> AttrOrNone(child_source.attributes, "tvg-id"),
     tvg_logo |-> AttrOrNone(child_source.attributes, "tvg-logo"),
     group_title |-> AttrOrNone(child_source.attributes, "group-title")]

\* lines 60-67 and 101-108: the value insert_channel / insert_channel_source
\* returns: <<row>>, or <<>> (None) when no data came back or the call raised
InsertReturns(outcome, row) == IF outcome = "inserted" THEN <<row>> ELSE <<>>

\* the row the table channel_sources stores for source_data, with the id the
\* table gives it
StoredSource(id, source_data) ==
    [id |-> id,
     parent_channel_id |-> source_data.parent_channel_id,
     source_url |-> source_data.source_url,
     stream_url |-> source_data.stream_url,
     tvg_name |-> source_data.tvg_name,
     tvg_id |-> source_data.tvg_id,
     tvg_logo |-> source_data.tvg_logo,
     group_title |-> source_data.group_title]

\* the id a table gives to its next row: one more than the last id it gave,
\* in this run or before it; ids are not used again after a delete
NextId(table) == db_serial[table] + 1

\* the table has stored a row under NextId(table)
SerialAfter(table) == [db_serial EXCEPT ![table] = NextId(table)]

\* lines 270-280 for the groups from g on: the rows of channel_sources after
\* an earlier call of batch_insert_channels_from_json, all of whose inserts
\* stored their row, into empty tables
RECURSIVE SourcesOfRun(_, _, _)
SourcesOfRun(groups, g, rows) ==
    IF g > Len(groups) THEN rows
    ELSE LET childlist == groups[g].v.childlist
         IN  SourcesOfRun(groups, g + 1,
                 rows \o [c \in 1..Len(childlist) |->
                             StoredSource(Len(rows) + c,
                                          SourceRow(g, childlist[c]))])

\* lines 249-283: the database such an earlier call has left
DatabaseAfter(groups) ==
    [channels |-> [g \in 1..Len(groups) |->
                      ChannelRow(g, groups[g].k, groups[g].v)],
     sources |-> SourcesOfRun(groups, 1, <<>>),
     serial |-> [channels |-> Len(groups),
                 channel_sources |-> Len(SourcesOfRun(groups, 1, <<>>))]]

\* the contents of channels_final.json at the earlier calls: none, one group
\* without alternates, two groups with one alternate each
EarlierInputs ==
    {ArrangeResult(input) :
        input \in {<<>>, SubSeq(TwoGroupsPlayable, 1, 1), TwoGroupsPlayable}}

\* lines 12-16: every run connects to the one database, and nothing empties
\* its tables before the loop of line 249
EarlierDatabases == {DatabaseAfter(groups) : groups \in EarlierInputs}

\* the record of one insert call: group is the position of the group (0 for
\* a call from outside batch_insert_channels_from_json), child is 0 for the
\* channel row and the position in childlist for a source row, id is the id
\* of the row stored (0 when none was), parent is the parent_channel_id sent
\* (0 for a channel row)
InsertCall(table, group, child, outcome, id, parent) ==
    [table |-> table, group |-> group, child |-> child, outcome |-> outcome,
     id |-> IF outcome = "inserted" THEN id ELSE 0, parent |-> parent]

\* batch_insert_channels_from_json has loaded channels_final.json (lines
\* 241-246); the tables hold what the earlier runs have left in them
InitSync ==
    /\ pc = "sync"
    /\ sync_channels \in SyncInputs
    /\ sync_idx = 1
    /\ \E db \in EarlierDatabases :
          /\ db_channels = db.channels
          /\ db_sources = db.sources
          /\ db_serial = db.serial
    /\ success_count = 0
    /\ error_count = 0
    /\ sync_errors = <<>>
    /\ insert_log = <<>>
    /\ sync_result = "none"
    /\ sync_child = 0
    /\ sync_channel_id = 0
    /\ api_calls = 0
    /\ api_result = "none"
    /\ IdleParse
    /\ IdleArrange
    /\ IdleRecheck
    /\ IdleExtract
    /\ IdleCheck

\* lines 249-266 and 281-283: the insert request of the channel row of the
\* next group, and what the loop does with its result
SyncInsertChannel ==
    /\ pc = "sync"
    /\ sync_idx <= Len(sync_channels)
    /\ sync_child = 0
    /\ LET channel_key == sync_channels[sync_idx].k
           channel_info == sync_channels[sync_idx].v
           row == ChannelRow(NextId("channels"), channel_key, channel_info)
       IN  \E outcome \in InsertOutcomes :
              LET channel_result == InsertReturns(outcome, row)
              IN  /\ insert_log' = Append(insert_log,
                         InsertCall("channels", sync_idx, 0, outcome, row.id, 0))
                  /\ IF channel_result # <<>>
                     THEN /\ db_channels' = Append(db_channels, row)
                          /\ db_serial' = SerialAfter("channels")
                          /\ success_count' = success_count + 1
                          /\ sync_channel_id' = channel_result[1].id
                          /\ IF channel_info.childlist = <<>>
                             THEN sync_idx' = sync_idx + 1 /\ sync_child' = 0
                             ELSE sync_idx' = sync_idx /\ sync_child' = 1
                          /\ UNCHANGED <<error_count, sync_errors>>
                     ELSE /\ error_count' = error_count + 1
                          /\ sync_errors' = Append(sync_errors, channel_key)
                          /\ sync_idx' = sync_idx + 1
                          /\ UNCHANGED <<db_channels, db_serial, success_count,
                                         sync_channel_id, sync_child>>
    /\ UNCHANGED <<pc, sync_channels, db_sources, sync_result, api_calls,
                   api_result>>
    /\ UNCHANGED <<parseVars, arrangeVars, recheckVars, extractVars, checkVars>>

\* lines 270-280: the insert request of one alternate source of the group;
\* the value insert_channel_source returns is not looked at
SyncInsertSource ==
    /\ pc = "sync"
    /\ sync_child >= 1
    /\ LET childlist == sync_channels[sync_idx].v.childlist
           source_data == SourceRow(sync_channel_id, childlist[sync_child])
           id == NextId("channel_sources")
       IN  /\ \E outcome \in InsertOutcomes :
                /\ insert_log' = Append(insert_log,
                       InsertCall("channel_sources", sync_idx, sync_child,
                                  outcome, id, source_data.parent_channel_id))
                /\ IF InsertReturns(outcome, source_data) # <<>>
                   THEN /\ db_sources' =
                               Append(db_sources, StoredSource(id, source_data))
                        /\ db_serial' = SerialAfter("channel_sources")
                   ELSE UNCHANGED <<db_sources, db_serial>>
           /\ IF sync_child < Len(childlist)
              THEN sync_child' = sync_child + 1 /\ sync_idx' = sync_idx
              ELSE sync_child' = 0 /\ sync_idx' = sync_idx + 1
    /\ UNCHANGED <<pc, sync_channels, db_channels, success_count, error_count,
                   sync_errors, sync_result, sync_channel_id, api_calls, api_result>>
    /\ UNCHANGED <<parseVars, arrangeVars, recheckVars, extractVars, checkVars>>

\* lines 288-294: the loop is over, the function returns success
SyncReturn ==
    /\ pc = "sync"
    /\ sync_idx > Len(sync_channels)
    /\ sync_result' = "success"
    /\ pc' = "synced"
    /\ UNCHANGED <<sync_channels, sync_idx, db_channels, db_sources, db_serial,
                   success_count, error_count, sync_errors, insert_log,
                   sync_child, sync_channel_id, api_calls, api_result>>
    /\ UNCHANGED <<parseVars, arrangeVars, recheckVars, extractVars, checkVars>>

\* The other public methods of ChannelDB.  main() does not call them; a
\* caller of the class does, after the batch insert or, as another client of
\* the database, between two of its requests.

\* the ids the calls name: ids of rows of the tables, or of no row
ApiIds == {1, 2}

\* the argument of a call of insert_channel from outside the batch
ApiChannelInfo ==
    [source_url |-> <<"s", "9">>,
     channel_name |-> <<"Z">>,
     stream_url |-> UrlHttp4,
     attributes |-> <<>>]

\* the argument of update_channel: a key the method passes on and a key it
\* drops
ApiUpdate ==
    <<[k |-> "channel_key", v |-> <<"x">>],
      [k |-> "stream_url", v |-> UrlHttps6]>>

\* lines 180-183: the keys of channel_data that are passed on
UpdatableKeys ==
    {"source_url", "channel_name", "stream_url",
     "tvg_name", "tvg_id", "tvg_logo", "group_title"}

UpdateData(channel_data) ==
    SelectSeq(channel_data, LAMBDA e : e.k \in UpdatableKeys)

\* the row after update(update_data)
UpdatedRow(row, update_data) ==
    [id |-> row.id,
     channel_key |-> row.channel_key,
     source_url |-> IF DictHas(update_data, "source_url")
                    THEN DictGet(update_data, "source_url") ELSE row.source_url,
     channel_name |-> IF DictHas(update_data, "channel_name")
                      THEN DictGet(update_data, "channel_name")
                      ELSE row.channel_name,
     stream_url |-> IF DictHas(update_data, "stream_url")
                    THEN DictGet(update_data, "stream_url") ELSE row.stream_url,
     tvg_name |-> IF DictHas(update_data, "tvg_name")
                  THEN <<DictGet(update_data, "tvg_name")>> ELSE row.tvg_name,
     tvg_id |-> IF DictHas(update_data, "tvg_id")
                THEN <<DictGet(update_data, "tvg_id")>> ELSE row.tvg_id,
     tvg_logo |-> IF DictHas(update_data, "tvg_logo")
                  THEN <<DictGet(update_data, "tvg_logo")>> ELSE row.tvg_logo,
     group_title |-> IF DictHas(update_data, "group_title")
                     THEN <<DictGet(update_data, "group_title")>>
                     ELSE row.group_title]

HasId(rows, id) == \E i \in 1..Len(rows) : rows[i].id = id

ApiEnabled ==
    /\ pc \in {"sync", "synced"}
    /\ api_calls < MaxApiCalls

\* lines 26-67, called from outside the batch
ApiInsertChannel ==
    /\ ApiEnabled
    /\ LET row == ChannelRow(NextId("channels"),
                      ChannelKey(ApiChannelInfo.source_url, 0), ApiChannelInfo)
       IN  \E outcome \in InsertOutcomes :
              /\ insert_log' = Append(insert_log,
                     InsertCall("channels", 0, 0, outcome, row.id, 0))
              /\ IF InsertReturns(outcome, row) # <<>>
                 THEN /\ db_channels' = Append(db_channels, row)
                      /\ db_serial' = SerialAfter("channels")
                 ELSE UNCHANGED <<db_channels, db_serial>>
              /\ api_result' = IF InsertReturns(outcome, row) # <<>>
                               THEN "row" ELSE "None"
    /\ api_calls' = api_calls + 1
    /\ UNCHANGED <<pc, sync_channels, sync_idx, db_sources, success_count,
                   error_count, sync_errors, sync_result, sync_child,
                   sync_channel_id>>
    /\ UNCHANGED <<parseVars, arrangeVars, recheckVars, extractVars, checkVars>>

\* lines 69-108, called from outside the batch with any parent_channel_id
ApiInsertSource ==
    /\ ApiEnabled
    /\ \E parent \in ApiIds, outcome \in InsertOutcomes :
          LET source_data == SourceRow(parent, ChildOf(ApiChannelInfo))
              id == NextId("channel_sources")
          IN  /\ insert_log' = Append(insert_log,
                     InsertCall("channel_sources", 0, 0, outcome, id,
                                source_data.parent_channel_id))
              /\ IF InsertReturns(outcome, source_data) # <<>>
                 THEN /\ db_sources' =
                             Append(db_sources, StoredSource(id, source_data))
                      /\ db_serial' = SerialAfter("channel_sources")
                 ELSE UNCHANGED <<db_sources, db_serial>>
              /\ api_result' = IF InsertReturns(outcome, source_data) # <<>>
                               THEN "row" ELSE "None"
    /\ api_calls' = api_calls + 1
    /\ UNCHANGED <<pc, sync_channels, sync_idx, db_channels, success_count,
                   error_count, sync_errors, sync_result, sync_child,
                   sync_channel_id>>
    /\ UNCHANGED <<parseVars, arrangeVars, recheckVars, extractVars, checkVars>>

\* lines 169-191: the request updates the rows of the id, or raises; the
\* method returns whether a row came back
ApiUpdateChannel ==
    /\ ApiEnabled
    /\ \E id \in ApiIds, raises \in BOOLEAN :
          IF raises
          THEN /\ api_result' = "False"
               /\ UNCHANGED db_channels
          ELSE /\ db_channels' =
                      [i \in 1..Len(db_channels) |->
                          IF db_channels[i].id = id
                          THEN UpdatedRow(db_channels[i], UpdateData(ApiUpdate))
                          ELSE db_channels[i]]
               /\ api_result' = IF HasId(db_channels, id) THEN "True" ELSE "False"
    /\ api_calls' = api_calls + 1
    /\ UNCHANGED <<pc, sync_channels, sync_idx, db_sources, db_serial,
                   success_count, error_count, sync_errors, insert_log,
                   sync_result, sync_child, sync_channel_id>>
    /\ UNCHANGED <<parseVars, arrangeVars, recheckVars, extractVars, checkVars>>

\* lines 193-209: the request deletes the row of the id, or raises.  The
\* schema of the tables is not in the repository: the sources of the channel
\* go with it (the cascade of the docstring, line 195) or stay
ApiDeleteChannel ==
    /\ ApiEnabled
    /\ \E id \in ApiIds, raises \in BOOLEAN, cascade \in BOOLEAN :
          IF raises
          THEN /\ api_result' = "False"
               /\ UNCHANGED <<db_channels, db_sources>>
          ELSE /\ db_channels' = SelectSeq(db_channels, LAMBDA r : r.id # id)
               /\ db_sources' =
                      IF cascade /\ HasId(db_channels, id)
                      THEN SelectSeq(db_sources,
                               LAMBDA r : r.parent_channel_id # id)
                      ELSE db_sources
               /\ api_result' = IF HasId(db_channels, id) THEN "True" ELSE "False"
    /\ api_calls' = api_calls + 1
    /\ UNCHANGED <<pc, sync_channels, sync_idx, db_serial, success_count,
                   error_count, sync_errors, insert_log, sync_result,
                   sync_child, sync_channel_id>>
    /\ UNCHANGED <<parseVars, arrangeVars, recheckVars, extractVars, checkVars>>

\* lines 211-227: the request deletes the source row of the id, or raises
ApiDeleteSource ==
    /\ ApiEnabled
    /\ \E id \in ApiIds, raises \in BOOLEAN :
          IF raises
          THEN /\ api_result' = "False"
               /\ UNCHANGED db_sources
          ELSE /\ db_sources' = SelectSeq(db_sources, LAMBDA r : r.id # id)
               /\ api_result' = IF HasId(db_sources, id) THEN "True" ELSE "False"
    /\ api_calls' = api_calls + 1
    /\ UNCHANGED <<pc, sync_channels, sync_idx, db_channels, db_serial,
                   success_count, error_count, sync_errors, insert_log,
                   sync_result, sync_child, sync_channel_id>>
    /\ UNCHANGED <<parseVars, arrangeVars, recheckVars, extractVars, checkVars>>

NextSync ==
    \/ SyncInsertChannel
    \/ SyncInsertSource
    \/ SyncReturn
    \/ ApiInsertChannel
    \/ ApiInsertSource
    \/ ApiUpdateChannel
    \/ ApiDeleteChannel
    \/ ApiDeleteSource

SpecSync == InitSync /\ [][NextSync]_vars

----------------------------------------------------------------------------
\* Claims about parse.py

LineKind(raw) ==
    LET line == Strip(raw)
    IN  IF line = <<>> THEN "blank"
        ELSE IF StartsWith(line, ExtinfPrefix) THEN "metadata"
        ELSE IF StartsWith(line, HttpPrefix) THEN "endpoint"
        ELSE "other"

LineKinds == [i \in 1..Len(lines) |-> LineKind(lines[i])]

\* the last line before line j of a kind, 0 when there is none
LastBefore(kinds, kind, j) ==
    LET is == {i \in 1..(j - 1) : kinds[i] = kind}
    IN  IF is = {} THEN 0 ELSE CHOOSE i \in is : \A x \in is : x <= i

\* the metadata line still pending just before line j: the latest metadata
\* line before j, when no endpoint line lies between it and j; 0 for none
PendingBefore(kinds, j) ==
    LET m == LastBefore(kinds, "metadata", j)
    IN  IF m > LastBefore(kinds, "endpoint", j) THEN m ELSE 0

\* the endpoint lines among the first n that complete a pending entry
Completing(kinds, n) ==
    {j \in 1..n : kinds[j] = "endpoint" /\ PendingBefore(kinds, j) # 0}

PendingInfo(p) ==
    [name |-> extract_channel_name(Strip(lines[p])),
     attributes |-> extract_attributes(Strip(lines[p]))]

ExpectedEntry(p, j) ==
    LET info == PendingInfo(p)
    IN  [source_url |-> m3u_url,
         channel_name |-> info.name,
         stream_url |-> Strip(lines[j]),
         attributes |-> info.attributes]

ExpectedEntries(kinds, n) ==
    LET js == SelectIdx([i \in 1..n |-> i], Completing(kinds, n), 1)
    IN  [x \in 1..Len(js) |-> ExpectedEntry(PendingBefore(kinds, js[x]), js[x])]

DictValues(d) == [i \in 1..Len(d) |-> d[i].v]

\* C9: when the loop has scanned all the lines of a download, the entries
\* built are exactly one entry per endpoint line that found a pending metadata
\* line (the latest one, with no endpoint line since), in line order, and an
\* entry is left pending exactly when a metadata line has no endpoint line
\* after it; so a metadata line followed by a metadata line or by the end of
\* input, an endpoint line without pending metadata and every other line
\* yield nothing.  (Every prefix of a download is a download of the model.)
C9_PairingRule ==
    (pc = "scan" /\ line_idx > Len(lines)) =>
        LET kinds == LineKinds
            p == PendingBefore(kinds, line_idx)
        IN  /\ DictValues(channels) = ExpectedEntries(kinds, Len(lines))
            /\ channel_index = Len(channels)
            /\ current_channel_info =
                   IF p = 0 THEN <<>> ELSE <<PendingInfo(p)>>

\* two metadata lines in a row, then two endpoint lines: one entry, named by
\* the second metadata line
C9_Witness ==
    /\ pc = "scan"
    /\ line_idx > Len(lines)
    /\ Len(lines) = 6
    /\ LineKind(lines[2]) = "metadata"
    /\ lines[3] = ExtinfB
    /\ LineKind(lines[4]) = "endpoint"
    /\ LineKind(lines[5]) = "endpoint"
    /\ Len(channels) = 1
    /\ channels[1].v.channel_name = <<"B">>
    /\ current_channel_info = <<>>

ParsedKeys == {ChannelKey(m3u_url, i) : i \in 0..(Len(channels) - 1)}

UniqueKeys(d) == \A i, j \in 1..Len(d) : d[i].k = d[j].k => i = j

\* C10: the merge step of parse.py (lines 64-81) of a parse of manifest M
\* with n entries leaves the
\* store mapping (M,0)..(M,n-1) to the new entries, keeps every other key of
\* the store with its value, adds no other key, keeps keys unique, and merging
\* the same parse result once more would change nothing.
C10_MergeIsUpsert ==
    [][ParseMerge =>
          LET old == channels_json.data
              new == channels_json'.data
          IN  /\ channels_json'.exists
              /\ \A i \in 1..Len(channels) :
                    /\ channels[i].k = ChannelKey(m3u_url, i - 1)
                    /\ DictHas(new, channels[i].k)
                    /\ DictGet(new, channels[i].k) = channels[i].v
              /\ \A key \in DictKeys(old) \ ParsedKeys :
                    /\ DictHas(new, key)
                    /\ DictGet(new, key) = DictGet(old, key)
              /\ DictKeys(new) = DictKeys(old) \cup ParsedKeys
              /\ UniqueKeys(new)
              /\ MergeChannels(channels_json', channels) = new]_vars

\* a second parse of s1 with one entry has been merged over a parse of s1 with
\* two entries and a parse of nothing else: ordinal 0 is overwritten, ordinal 1
\* stays
C10_Witness ==
    LET s1 == <<"s", "1">>
    IN  /\ pc = "idle"
        /\ parse_runs = 2
        /\ parse_result = ParseOk(1)
        /\ Len(channels_json.data) = 2
        /\ DictHas(channels_json.data, ChannelKey(s1, 0))
        /\ DictHas(channels_json.data, ChannelKey(s1, 1))
        /\ DictGet(channels_json.data, ChannelKey(s1, 0)).channel_name = <<"A">>
        /\ DictGet(channels_json.data, ChannelKey(s1, 1)).channel_name = <<"B">>

\* the first line of a download begins with the header marker, after
\* whitespace at most
HeaderFirst(ls) ==
    /\ ls # <<>>
    /\ \E i \in 1..Len(ls[1]) :
          /\ \A j \in 1..(i - 1) : ls[1][j] \in Whitespace
          /\ Len(ls[1]) >= i + Len(Header) - 1
          /\ SubSeq(ls[1], i, i + Len(Header) - 1) = Header

\* C11: a call of parse_m3u_to_json whose download does not begin with the
\* header (whitespace before it aside, which line 30 strips) returns the format error, builds no entry and leaves channels.json
\* as it was, and main() goes on to the next manifest url (the call returns
\* to the loop of main, which ignores the result); a download that begins
\* with the header is scanned.
C11_BadHeaderSkipped ==
    [][(pc = "idle" /\ lines' # <<>>) =>
          IF HeaderFirst(lines')
          THEN pc' = "scan"
          ELSE /\ parse_result' = ParseError("format")
               /\ channels_json' = channels_json
               /\ channels' = <<>>
               /\ pc' = "idle"
               /\ parse_runs' = parse_runs + 1]_vars

\* the second manifest of a run was rejected for its header after the first
\* one had put an entry in channels.json, and the entry is still there
C11_Witness ==
    /\ pc = "idle"
    /\ parse_runs = 2
    /\ parse_result = ParseError("format")
    /\ ~HeaderFirst(lines)
    /\ lines # <<>>
    /\ channels_json.exists
    /\ Len(channels_json.data) = 1

Decimal == <<"0", "1", "2", "3", "4", "5", "6", "7", "8", "9">>

\* the key of ordinal n (n < 10) of manifest url
OrdinalKey(url, n) == url \o <<"_", Decimal[n + 1]>>

\* C17: at every point of the scan of manifest M the entries built so far
\* have the keys (M,0), (M,1), ..., (M,n-1) in this order and the next
\* ordinal is n; when all the lines are scanned n is the number of
\* metadata/endpoint pairs completed.  (Every prefix of a download is a
\* download of the model.)
C17_DenseOrdinals ==
    pc = "scan" =>
        /\ channel_index = Len(channels)
        /\ \A i \in 1..Len(channels) :
              channels[i].k = OrdinalKey(m3u_url, i - 1)
        /\ line_idx > Len(lines) =>
              Len(channels) = Cardinality(Completing(LineKinds, Len(lines)))

\* two pairs have been scanned: ordinals 0 and 1
C17_Witness ==
    /\ pc = "scan"
    /\ line_idx > Len(lines)
    /\ Len(channels) = 2
    /\ LineKind(lines[3]) = "endpoint"
    /\ LineKind(lines[5]) = "endpoint"
    /\ channels[1].k = OrdinalKey(m3u_url, 0)
    /\ channels[2].k = OrdinalKey(m3u_url, 1)
    /\ channel_index = 2

----------------------------------------------------------------------------
\* Claims about extract_channel_name and extract_attributes

UnknownSentinel == <<"U", "n", "k", "n", "o", "w", "n">>

\* position of the last comma of a line, 0 when it has none
LastComma(line) ==
    LET cs == {i \in 1..Len(line) : line[i] = ","}
    IN  IF cs = {} THEN 0 ELSE CHOOSE i \in cs : \A j \in cs : j <= i

\* C18: the name extracted from a metadata line is the text after the last
\* comma of the line, trimmed, and the sentinel "Unknown" when the line has no
\* comma.
C18_NameAfterLastComma ==
    extracted_name # <<>> =>
        LET c == LastComma(metadata_line)
        IN  extracted_name[1] =
                IF c = 0 THEN UnknownSentinel
                ELSE Strip(SubSeq(metadata_line, c + 1, Len(metadata_line)))

\* the line has the characters key=" at some position and a closing quote
\* after them
HasToken(line, key) ==
    LET pat == AttributePattern(key)
    IN  \E i \in 1..Len(line) :
            /\ i + Len(pat) - 1 <= Len(line)
            /\ SubSeq(line, i, i + Len(pat) - 1) = pat
            /\ \E j \in (i + Len(pat))..Len(line) : line[j] = "\""

\* C19: the attribute map extracted from a metadata line has only keys of
\* the four recognised ones, each of them carried by the line as a
\* key="value" token, and no key has the empty string as its value.
C19_NoEmptyAttribute ==
    extracted_attributes # <<>> =>
        \A i \in 1..Len(extracted_attributes[1]) :
            LET a == extracted_attributes[1][i]
            IN  /\ a.k \in Range(AttributeKeys)
                /\ HasToken(metadata_line, a.k)
                /\ a.v # <<>>

----------------------------------------------------------------------------
\* Claims about arrange_channel.py

\* the input entries carrying a name, in input order, as (source, endpoint,
\* attributes) records
Members(input, name) ==
    LET idx == {i \in 1..Len(input) : input[i].v.channel_name = name}
        picked == SelectIdx(input, idx, 1)
    IN  [i \in 1..Len(picked) |-> ChildOf(picked[i].v)]

\* the priority class of an endpoint, 5 when it is in none
ClassOf(stream_url) ==
    IF StartsWith(stream_url, HttpsScheme)
    THEN (IF Contains(stream_url, "[") THEN 3 ELSE 1)
    ELSE IF StartsWith(stream_url, HttpScheme)
    THEN (IF Contains(stream_url, "[") THEN 4 ELSE 2)
    ELSE 5

\* pick minimal class, tie-break by original order; the first entry when no
\* entry is in a class
PrimaryIdx(ms) ==
    LET best == CHOOSE i \in 1..Len(ms) :
                    \A j \in 1..Len(ms) :
                        \/ ClassOf(ms[i].stream_url) < ClassOf(ms[j].stream_url)
                        \/ /\ ClassOf(ms[i].stream_url) = ClassOf(ms[j].stream_url)
                           /\ i <= j
    IN  IF ClassOf(ms[best].stream_url) = 5 THEN 1 ELSE best

RemoveAt(s, i) == SubSeq(s, 1, i - 1) \o SubSeq(s, i + 1, Len(s))

Count(e, s) == Cardinality({i \in 1..Len(s) : s[i] = e})

GroupEntries(g) == <<ChildOf(g)>> \o g.childlist

ArrangedGroups == {channels_arrange_json.data[i].v :
                      i \in 1..Len(channels_arrange_json.data)}

\* C4: in the file written by arrange_channels, every group's primary is the
\* first entry, in input order, of the lowest priority class present among the
\* entries of its name, and the group's first entry when none is in a class.
C4_PrioritySelection ==
    pc = "arranged" =>
        \A g \in ArrangedGroups :
            LET ms == Members(playable_channels, g.channel_name)
            IN  /\ ms # <<>>
                /\ ChildOf(g) = ms[PrimaryIdx(ms)]

\* the spec's example: http-ipv4, https-ipv6, https-ipv4 in that order; the
\* https-ipv4 entry is the primary
C4_Witness ==
    /\ pc = "arranged"
    /\ \E g \in ArrangedGroups :
          LET ms == Members(playable_channels, g.channel_name)
          IN  /\ Len(ms) = 3
              /\ ms[1].stream_url = UrlHttp4
              /\ ms[2].stream_url = UrlHttps6
              /\ ms[3].stream_url = UrlHttps4
              /\ g.stream_url = UrlHttps4

\* C5 as claimed: every group's overflow is the entries of its name in input
\* order with only the primary removed.
C5_OriginalOrder ==
    pc = "arranged" =>
        \A g \in ArrangedGroups :
            LET ms == Members(playable_channels, g.channel_name)
            IN  g.childlist = RemoveAt(ms, PrimaryIdx(ms))

\* C5 amended: when the primary is the first entry of its name the overflow is
\* the other entries in input order; otherwise it is the other entries in
\* input order followed by the displaced first entry, without the entries
\* whose endpoint is the primary's.
C5_OverflowOrder ==
    pc = "arranged" =>
        \A g \in ArrangedGroups :
            LET ms == Members(playable_channels, g.channel_name)
                p == PrimaryIdx(ms)
            IN  g.childlist =
                    IF p = 1 THEN Tail(ms)
                    ELSE SelectSeq(Tail(ms) \o <<ms[1]>>,
                             LAMBDA e : e.stream_url # ms[p].stream_url)

\* three entries of one name, the third is the primary: the overflow is the
\* second, then the first
C5_Witness ==
    /\ pc = "arranged"
    /\ \E g \in ArrangedGroups :
          LET ms == Members(playable_channels, g.channel_name)
          IN  /\ Len(ms) = 3
              /\ PrimaryIdx(ms) = 3
              /\ ms[1] # ms[2]
              /\ g.childlist = <<ms[2], ms[1]>>

\* s is t with some of its members left out
RECURSIVE IsSubseq(_, _)
IsSubseq(s, t) ==
    IF s = <<>> THEN TRUE
    ELSE IF t = <<>> THEN FALSE
    ELSE IF s[1] = t[1] THEN IsSubseq(Tail(s), Tail(t))
    ELSE IsSubseq(s, Tail(t))

\* C23: when arrange_channels replaces the first-seen entry of a name by an
\* entry of a better class, the displaced first entry is the last member of
\* the group's overflow list, and the overflow members before it are other
\* entries of the name in their input order.
C23_DisplacedAtTail ==
    pc = "arranged" =>
        \A g \in ArrangedGroups :
            LET ms == Members(playable_channels, g.channel_name)
                p == PrimaryIdx(ms)
                n == Len(g.childlist)
            IN  p > 1 =>
                    /\ n > 0
                    /\ g.childlist[n] = ms[1]
                    /\ IsSubseq(SubSeq(g.childlist, 1, n - 1),
                                RemoveAt(Tail(ms), p - 1))

\* four entries of one name, the fourth is the primary: the overflow is the
\* second, the third, then the displaced first
C23_Witness ==
    /\ pc = "arranged"
    /\ \E g \in ArrangedGroups :
          LET ms == Members(playable_channels, g.channel_name)
          IN  /\ Len(ms) = 4
              /\ PrimaryIdx(ms) = 4
              /\ ms[2] # ms[3]
              /\ g.stream_url = ms[4].stream_url
              /\ g.childlist = <<ms[2], ms[3], ms[1]>>

\* C6 as claimed: every name of the input has a group, and the group's primary
\* and overflow together are exactly the input entries of that name, each as
\* often as it occurs in the input.
C6_EveryEntryInOneGroup ==
    pc = "arranged" =>
        /\ \A i \in 1..Len(playable_channels) :
              DictHas(channels_arrange_json.data,
                  playable_channels[i].v.channel_name)
        /\ \A g \in ArrangedGroups :
              LET ms == Members(playable_channels, g.channel_name)
              IN  \A e \in Range(ms) \cup Range(GroupEntries(g)) :
                      Count(e, GroupEntries(g)) = Count(e, ms)

\* C7 as claimed: no overflow member of a group written by arrange_channels
\* or by recheck_arranged_channels equals the group's primary (same source,
\* endpoint and attributes).
C7_PrimaryNotInOverflow ==
    /\ pc = "arranged" =>
          \A g \in ArrangedGroups :
              \A j \in 1..Len(g.childlist) : g.childlist[j] # ChildOf(g)
    /\ pc = "rechecked" =>
          \A i \in 1..Len(final_channels) :
              LET g == final_channels[i].v
              IN  \A j \in 1..Len(g.childlist) : g.childlist[j] # ChildOf(g)

----------------------------------------------------------------------------
\* Claims about re_check.py

\* the groups the loop has probed and decided so far: those before the loop
\* position, and the group at it once lines 81-104 have run for it
Handled ==
    1..(IF recheck_at \in {"count", "open", "dump"}
        THEN group_pos ELSE group_pos - 1)

ReachableChildren(i) == {j \in 1..Len(probe_log[i].childs) : probe_log[i].childs[j]}

AnyReachable(i) == probe_log[i].main \/ ReachableChildren(i) # {}

FirstReachable(i) ==
    CHOOSE j \in ReachableChildren(i) : \A x \in ReachableChildren(i) : j <= x

\* the output file holds a group under this name
InFile(channel_name) ==
    channels_final_json.exists /\ DictHas(channels_final_json.data, channel_name)

\* C1: when recheck_arranged_channels has returned, a group whose primary and
\* overflow members all probed not-reachable is absent from the repaired
\* output, the file channels_final.json, and a group with a reachable member
\* is present in it.
C1_RemovalCorrectness ==
    pc = "rechecked" =>
        \A i \in 1..Len(arranged) :
            InFile(arranged[i].k) <=> AnyReachable(i)

\* C2: a handled group whose primary probed not-reachable and that has a
\* reachable overflow member is repaired to: primary the first reachable
\* overflow member, overflow the other reachable overflow members in their
\* order; and the output file, where it holds the group, holds it so.
C2_Promotion ==
    \A i \in Handled :
        (~probe_log[i].main /\ ReachableChildren(i) # {}) =>
            /\ DictHas(final_channels, arranged[i].k)
            /\ LET g == arranged[i].v
                   r == DictGet(final_channels, arranged[i].k)
               IN  /\ ChildOf(r) = g.childlist[FirstReachable(i)]
                   /\ r.channel_name = g.channel_name
                   /\ r.childlist =
                          SelectIdx(g.childlist,
                              ReachableChildren(i) \ {FirstReachable(i)}, 1)
                   /\ InFile(arranged[i].k) =>
                          DictGet(channels_final_json.data, arranged[i].k) = r

\* the spec's example: the primary and the first overflow member fail, the
\* second and third answer; the second is promoted, the third is the
\* overflow, and the run has written the group to the file
C2_Witness ==
    /\ pc = "rechecked"
    /\ Len(arranged) = 1
    /\ Len(arranged[1].v.childlist) = 3
    /\ ~probe_log[1].main
    /\ probe_log[1].childs = <<FALSE, TRUE, TRUE>>
    /\ arranged[1].v.childlist[2] # arranged[1].v.childlist[3]
    /\ InFile(arranged[1].k)
    /\ ChildOf(DictGet(channels_final_json.data, arranged[1].k)) =
           arranged[1].v.childlist[2]
    /\ DictGet(channels_final_json.data, arranged[1].k).childlist =
           <<arranged[1].v.childlist[3]>>

\* C3: a handled group whose primary probed reachable keeps its primary and
\* name, and its overflow is the reachable overflow members in their order;
\* and the output file, where it holds the group, holds it so.
C3_LivePrimary ==
    \A i \in Handled :
        probe_log[i].main =>
            /\ DictHas(final_channels, arranged[i].k)
            /\ LET g == arranged[i].v
                   r == DictGet(final_channels, arranged[i].k)
               IN  /\ ChildOf(r) = ChildOf(g)
                   /\ r.channel_name = g.channel_name
                   /\ r.childlist =
                          SelectIdx(g.childlist, ReachableChildren(i), 1)
                   /\ InFile(arranged[i].k) =>
                          DictGet(channels_final_json.data, arranged[i].k) = r

\* a live primary with three overflow members of which the middle one fails;
\* the run has written the group to the file
C3_Witness ==
    /\ pc = "rechecked"
    /\ Len(arranged) = 1
    /\ Len(arranged[1].v.childlist) = 3
    /\ probe_log[1].main
    /\ probe_log[1].childs = <<TRUE, FALSE, TRUE>>
    /\ InFile(arranged[1].k)
    /\ DictGet(channels_final_json.data, arranged[1].k).childlist =
           <<arranged[1].v.childlist[1], arranged[1].v.childlist[3]>>

\* C8: at every point of a run, the kept groups that cannot be read from the
\* checkpoint file are at most one batch: a crash at that point loses no more.
C8_CheckpointLoss ==
    pc = "recheck" =>
        Len(final_channels) - Len(channels_final_json.data) <= BatchSize

----------------------------------------------------------------------------
\* Claims about re_check.py: full re-evaluation, idempotence, the output file

\* the endpoints of a group's members: the primary, then the overflow members
MemberUrls(g) ==
    <<g.stream_url>> \o [j \in 1..Len(g.childlist) |-> g.childlist[j].stream_url]

RECURSIVE MemberUrlsUpTo(_)
MemberUrlsUpTo(n) ==
    IF n = 0 THEN <<>> ELSE MemberUrlsUpTo(n - 1) \o MemberUrls(arranged[n].v)

\* the members of the group at the loop position that have been probed: none
\* before the primary's probe, the primary and the children before the
\* position of the child loop during it, all of them after it
ProbedOfCurrent ==
    IF pc # "recheck" \/ recheck_at = "main" THEN <<>>
    ELSE IF recheck_at = "child"
    THEN SubSeq(MemberUrls(arranged[group_pos].v), 1, child_pos)
    ELSE MemberUrls(arranged[group_pos].v)

\* C14: at every point of a run the probes made so far are exactly one probe
\* per member of the groups before the loop position, group by group, the
\* primary first and then every overflow member, followed by one probe per
\* member of the current group up to the position in it; every overflow
\* member of a handled group has a recorded answer whatever the primary's
\* probe answered; so when the run has returned every member of every group
\* has been probed exactly once.
C14_EveryMemberProbedOnce ==
    pc \in {"recheck", "rechecked"} =>
        /\ probed = MemberUrlsUpTo(group_pos - 1) \o ProbedOfCurrent
        /\ \A i \in Handled :
              Len(probe_log[i].childs) = Len(arranged[i].v.childlist)
        /\ pc = "rechecked" => probed = MemberUrlsUpTo(Len(arranged))

\* the run over two groups with one overflow member each is over; the
\* primary of the first group answered 200 and its overflow member was probed
\* all the same, and failed; the second group was probed after it
C14_Witness ==
    /\ pc = "rechecked"
    /\ Len(arranged) = 2
    /\ probe_log[1].main
    /\ probe_log[1].childs = <<FALSE>>
    /\ ~probe_log[2].main
    /\ probe_log[2].childs = <<TRUE>>
    /\ probed = <<UrlHttps4, UrlHttp4, UrlHttps4, UrlHttp4>>

\* C13: when a first run has returned success, running
\* recheck_arranged_channels on its output, the file channels_final.json,
\* every endpoint answering as in the first run, returns success as well,
\* with a mapping identical to that output (same groups in the same order,
\* same primaries, same overflow lists), and leaves the file as it was.
C13_RepairIdempotent ==
    run_no = 2 =>
        /\ pc # "failed"
        /\ pc = "rechecked" =>
              /\ final_channels = arranged
              /\ channels_final_json = FileOf(arranged)

\* C20: when recheck_arranged_channels has returned success, the output file
\* exists and holds exactly the mapping the run built, so the reported
\* final_groups is the number of groups in the file.
C20_FileHoldsFinalMapping ==
    pc = "rechecked" =>
        /\ channels_final_json.exists
        /\ channels_final_json.data = final_channels

\* the primary of a group is of the lowest priority class of the group
PrimaryIsBest(g) ==
    \A j \in 1..Len(g.childlist) :
        ClassOf(g.stream_url) <= ClassOf(g.childlist[j].stream_url)

\* C22 as claimed: in the repaired mapping the primary of every handled group
\* that was kept has the lowest-numbered priority class among the group's
\* surviving members.
C22_PrimaryBestOfSurvivors ==
    \A i \in Handled :
        DictHas(final_channels, arranged[i].k) =>
            PrimaryIsBest(DictGet(final_channels, arranged[i].k))

\* C22, amended: in the Grouper's output every group's primary has the
\* lowest-numbered class of the group; in the repaired mapping a group whose
\* input primary answered 200 keeps it, and it has the lowest-numbered class
\* among the survivors; a group whose input primary failed has as primary the
\* endpoint of the first overflow member that answered 200, in overflow
\* order, whatever its class; and the output file, where it holds the group,
\* holds it with that primary.
C22_PrimaryBestUnlessPromoted ==
    /\ pc \in {"recheck", "rechecked"} =>
          \A i \in 1..Len(arranged) : PrimaryIsBest(arranged[i].v)
    /\ \A i \in Handled :
          DictHas(final_channels, arranged[i].k) =>
              LET g == arranged[i].v
                  r == DictGet(final_channels, arranged[i].k)
              IN  /\ IF probe_log[i].main
                     THEN r.stream_url = g.stream_url /\ PrimaryIsBest(r)
                     ELSE r.stream_url =
                              g.childlist[FirstReachable(i)].stream_url
                  /\ InFile(arranged[i].k) =>
                         DictGet(channels_final_json.data,
                                 arranged[i].k).stream_url = r.stream_url

\* the primary (https over IPv4) failed, both overflow members answered: the
\* first of them, https over IPv6 (class 3), was promoted over the surviving
\* http over IPv4 (class 2), and the file holds the group so
C22_Witness ==
    /\ pc = "rechecked"
    /\ Len(arranged) = 1
    /\ arranged[1].v.stream_url = UrlHttps4
    /\ ~probe_log[1].main
    /\ probe_log[1].childs = <<TRUE, TRUE>>
    /\ channels_final_json.exists
    /\ Len(channels_final_json.data) = 1
    /\ channels_final_json.data[1].v.stream_url = UrlHttps6
    /\ Len(channels_final_json.data[1].v.childlist) = 1
    /\ channels_final_json.data[1].v.childlist[1].stream_url = UrlHttp4

\* every key of out is a key of the input, with the input group's
\* channel_name, and the group's records are records of the input group, in
\* the input group's order
OnlyRemoves(out) ==
    \A i \in 1..Len(out) :
        /\ DictHas(arranged, out[i].k)
        /\ LET g == DictGet(arranged, out[i].k)
               r == out[i].v
           IN  /\ r.channel_name = g.channel_name
               /\ IsSubseq(GroupEntries(r), GroupEntries(g))

\* C24: the Repair stage adds and alters nothing, at any point of the run:
\* every key of the repaired mapping, and of the file written from it, is a
\* key of the input with the same channel_name, and the primary followed by
\* the overflow of the output group is a subsequence of the primary followed
\* by the overflow of the input group, every record with its source, endpoint
\* and attribute map as in the input.
C24_RepairOnlyRemoves ==
    /\ OnlyRemoves(final_channels)
    /\ channels_final_json.exists => OnlyRemoves(channels_final_json.data)

\* a group of three members with different attribute maps whose primary
\* failed: the two overflow members are the repaired group in the file, the
\* first of them as primary with its own attribute map
C24_Witness ==
    /\ pc = "rechecked"
    /\ Len(arranged) = 1
    /\ Len(arranged[1].v.childlist) = 2
    /\ arranged[1].v.childlist[1].attributes # arranged[1].v.attributes
    /\ arranged[1].v.childlist[1] # arranged[1].v.childlist[2]
    /\ ~probe_log[1].main
    /\ channels_final_json.exists
    /\ Len(channels_final_json.data) = 1
    /\ GroupEntries(channels_final_json.data[1].v) = arranged[1].v.childlist

----------------------------------------------------------------------------
\* Claims about check.py and about probe failures in both probing stages

\* C12: an iteration of the loop of check.py adds the entry to the reachable
\* set, under its key and with its record, exactly when the entry has an
\* endpoint and the probe answered with status 200; after another status, a
\* timeout, a connection failure or an unexpected failure the set is as it
\* was; and every entry of the set is an input entry under its input key.
C12_KeptIffStatus200 ==
    [][(pc = "check" /\ check_idx' = check_idx + 1) =>
          LET key == check_channels[check_idx].k
              channel_info == check_channels[check_idx].v
              kept == channel_info.stream_url # <<>> /\ last_outcome' = "200"
          IN  /\ check_playable' =
                     IF kept
                     THEN Append(check_playable, [k |-> key, v |-> channel_info])
                     ELSE check_playable
              /\ \A i \in 1..Len(check_playable') :
                    /\ DictHas(check_channels, check_playable'[i].k)
                    /\ DictGet(check_channels, check_playable'[i].k) =
                           check_playable'[i].v]_vars

\* the first entry was kept and the second one, whose probe failed
\* unexpectedly, was not
C12_Witness ==
    /\ pc = "check"
    /\ check_idx = 3
    /\ last_outcome = "Exception"
    /\ check_channels[2].v.stream_url # <<>>
    /\ Len(check_playable) = 1
    /\ check_playable[1].k = check_channels[1].k
    /\ check_playable[1].v = check_channels[1].v

\* number of entries with an endpoint among the first n
WithEndpoint(n) ==
    Cardinality({i \in 1..n : check_channels[i].v.stream_url # <<>>})

\* C15: no probe outcome ends a run of check.py or of re_check.py early or
\* with an error: in check.py every entry with an endpoint before the loop
\* position has been probed and counted, and the call returns only when every
\* entry has been handled, with success; in re_check.py every group before
\* the loop position has an answer recorded for its primary and for every
\* overflow member, the group at the position for the members probed so far,
\* and the call returns only when every group has been handled.
C15_ProbeFailuresRecovered ==
    /\ pc # "failed"
    /\ check_result # "error"
    /\ pc = "check" => checked_count = WithEndpoint(check_idx - 1)
    /\ pc # "check" =>
          /\ check_result = "success"
          /\ check_idx = Len(check_channels) + 1
          /\ checked_count = WithEndpoint(Len(check_channels))
    /\ pc = "recheck" =>
          /\ Len(probe_log) =
                 IF recheck_at = "main" THEN group_pos - 1 ELSE group_pos
          /\ \A i \in 1..(group_pos - 1) :
                Len(probe_log[i].childs) = Len(arranged[i].v.childlist)
          /\ recheck_at = "child" =>
                Len(probe_log[group_pos].childs) = child_pos - 1
    /\ pc = "rechecked" =>
          /\ group_pos = Len(arranged) + 1
          /\ Len(probe_log) = Len(arranged)
          /\ \A i \in 1..Len(arranged) :
                Len(probe_log[i].childs) = Len(arranged[i].v.childlist)

\* check.py, arrange_channel.py and re_check.py have run one after the
\* other.  In check.py the probe of the first of four entries raised and the
\* three later entries were probed and kept; in re_check.py the probe of the
\* primary of the first group raised, and the second group was probed after
\* it, its primary and its overflow member, and kept; both calls have
\* returned success
C15_Witness ==
    /\ pc = "rechecked"
    /\ check_result = "success"
    /\ Len(check_channels) = 4
    /\ checked_count = 4
    /\ probe_raised
    /\ Len(check_playable) = 3
    /\ check_playable[1].k = check_channels[2].k
    /\ Len(arranged) = 2
    /\ recheck_raised
    /\ probe_log = <<[main |-> FALSE, childs |-> <<>>],
                     [main |-> TRUE, childs |-> <<TRUE>>]>>
    /\ Len(probed) = 3
    /\ Len(final_channels) = 1
    /\ final_channels[1].k = arranged[2].k

\* C21: when check_playable_channels_from_json has returned success, the
\* output file exists and holds exactly the entries whose probe answered 200,
\* for every input mapping, the empty one and those with entries without a
\* stream_url included.
C21_FileHoldsPlayableSet ==
    (pc = "checked" /\ check_result = "success") =>
        /\ playable_json.exists
        /\ playable_json.data = check_playable

----------------------------------------------------------------------------
\* Claims about sync_database.py

SameRecord(a, b) == a.table = b.table /\ a.group = b.group /\ a.child = b.child

\* C16: when the database sync has returned, every insert call that failed
\* (a channel row or an alternate-source row that was not stored) was
\* followed by another attempt for the same record, or it was the last call
\* of the run and the run returned the failure instead of success.
C16_FailedWriteRetriedOrHalts ==
    pc = "synced" =>
        \A i \in 1..Len(insert_log) :
            insert_log[i].outcome # "inserted" =>
                \/ /\ i < Len(insert_log)
                   /\ SameRecord(insert_log[i + 1], insert_log[i])
                \/ /\ i = Len(insert_log)
                   /\ sync_result = "error"

\* the insert calls batch_insert_channels_from_json has made for a group
BatchCalls(table, group) ==
    {i \in 1..Len(insert_log) :
        insert_log[i].table = table /\ insert_log[i].group = group}

\* C25: in the database sync every insert call of an alternate-source row
\* comes after the one insert call of the channel row of its own group, which
\* stored a row, and sends that row's id as parent_channel_id; a group whose
\* channel insert failed gets no alternate-source call at all; the rows these
\* calls have stored in channel_sources carry the parent_channel_id that was
\* sent; no two rows of a table share an id, the rows of earlier runs
\* included; and the groups counted as successes and as errors are the groups
\* handled so far, all groups of the input file when the call has returned.
C25_SourcesFollowTheirChannel ==
    /\ \A g \in 1..Len(sync_channels) :
          /\ Cardinality(BatchCalls("channels", g)) <= 1
          /\ \A i \in BatchCalls("channel_sources", g) :
                \E j \in BatchCalls("channels", g) :
                    /\ j < i
                    /\ insert_log[j].outcome = "inserted"
                    /\ insert_log[j].id > 0
                    /\ insert_log[i].parent = insert_log[j].id
          /\ \A j \in BatchCalls("channels", g) :
                insert_log[j].outcome # "inserted" =>
                    BatchCalls("channel_sources", g) = {}
    /\ \A i \in 1..Len(insert_log) :
          (insert_log[i].table = "channel_sources"
              /\ insert_log[i].outcome = "inserted") =>
              \A n \in 1..Len(db_sources) :
                  db_sources[n].id = insert_log[i].id =>
                      db_sources[n].parent_channel_id = insert_log[i].parent
    /\ \A m, n \in 1..Len(db_sources) :
          db_sources[m].id = db_sources[n].id => m = n
    /\ \A m, n \in 1..Len(db_channels) :
          db_channels[m].id = db_channels[n].id => m = n
    /\ (pc = "sync" /\ sync_child = 0) =>
          success_count + error_count = sync_idx - 1
    /\ pc = "synced" => success_count + error_count = Len(sync_channels)

\* a second run on the database an earlier run of two groups has left, with
\* two groups with one alternate source each and no other call: the channel
\* insert of the first failed and no alternate was attempted for it, the
\* channel row of the second was stored under a new id and its alternate
\* after it, with that row's id
C25_Witness ==
    /\ pc = "synced"
    /\ api_calls = 0
    /\ Len(sync_channels) = 2
    /\ Len(sync_channels[1].v.childlist) = 1
    /\ Len(sync_channels[2].v.childlist) = 1
    /\ insert_log = <<InsertCall("channels", 1, 0, "raises", 0, 0),
                      InsertCall("channels", 2, 0, "inserted", 3, 0),
                      InsertCall("channel_sources", 2, 1, "inserted", 3, 3)>>
    /\ Len(db_channels) = 3
    /\ Len(db_sources) = 3
    /\ db_sources[3].parent_channel_id = db_channels[3].id
    /\ db_channels[3].id = 3
    /\ success_count = 1
    /\ error_count = 1

====
